---- MODULE Spec2Model ----
(***************************************************************************)
(* A model of the PC Panel audio stack:                                    *)
(*   - the driver's LoopbackBuffer and its IO / control handlers           *)
(*     (src/unnamed/part_010),                                             *)
(*   - the native AudioMixer with its RingBuffer and render callback       *)
(*     (src/unnamed/part_009),                                             *)
(*   - the AudioRoutingManager and its configuration updates               *)
(*     (src/src/main/audio/types.ts, src/src/main/index.ts).               *)
(* Each subsystem has its own specification over the shared variables;     *)
(* a specification leaves the other subsystems' variables unchanged.       *)
(***************************************************************************)
EXTENDS Integers, Sequences, FiniteSets, TLC

\* ------------------------------------------------------------------------
\* Bounds of the model
\* ------------------------------------------------------------------------
\* LoopbackBuffer::kBufferSize, scaled down (the driver uses 1,920,000).
kBufferSize == 3
\* Largest byte count of one write or read request.
MaxReq == 2
\* Bytes the writer offers over a run.
MaxBytes == 4
\* Cap on the underrun counter (an unbounded size_t in the code).
MaxUnderruns == 2
\* StartIO / StopIO requests the host makes over a run.
MaxHandlerCalls == 2
\* The last tick a run follows the steady clock to.
MaxClock == 4

\* size_t arithmetic is modulo 2^64; the modulus stands scaled down, to a power of
\* two above every position the bounded runs reach, so that only a writer or reader
\* that runs without bound makes a position wrap.
SizeModulus == 16

Min(a, b) == IF a <= b THEN a ELSE b

\* unsigned subtraction of two size_t values
USub(a, b) == ((a - b) + SizeModulus) % SizeModulus

VARIABLES
    \* LoopbackBuffer fields
    buffer_,          \* the ring's bytes: 0 is a zero byte, k > 0 the k-th byte offered
    writePos_,
    readPos_,
    underrunCount_,
    \* threads of the driver
    wr,               \* realtime thread in LoopbackBuffer::write
    rd,               \* realtime thread in LoopbackBuffer::read
    ctl,              \* control thread in OnStartIO / OnStopIO
    ioRunning,        \* the device is between OnStartIO and OnStopIO
    \* history
    handlerCalls,     \* StartIO / StopIO requests made by the host so far
    trackHistory,     \* whether accepted / delivered are being recorded
    nextId,           \* id of the next byte a client offers
    accepted,         \* the ids writes took in (writePos_ advanced over them), in order
    lastWrite,        \* the last completed write: bytes offered, space found, advance
    delivered,        \* the real bytes reads returned, in order
    sessionFirstId,   \* the first id offered after the last handler returned
    staleRead         \* a read begun after a handler returned got a byte offered before it

lbVars == <<buffer_, writePos_, readPos_, underrunCount_, wr, rd, ctl, ioRunning,
            handlerCalls, trackHistory, nextId, accepted, lastWrite, delivered, sessionFirstId, staleRead>>

VARIABLES
    \* the operating system's audio objects, as the addon sees them
    osDevices,        \* ids of the audio devices present
    osDefaultOutput,  \* id of the default output device, or kAudioObjectUnknown
    osRate,           \* nominal sample rate of each device
    ioProcs,          \* the IOProcs registered and started on devices
    outSamples,       \* the output buffer the last OutputIOProc filled
    ioCalls,          \* IOProc calls the HAL has made so far
    \* native addon
    g_mixers,         \* the AudioMixer objects, by handle + 1
    \* AudioRoutingManager
    config,
    mixerHandles,
    isInitialized,
    saveTimeout,      \* the handle of the pending save timer, or Null
    js,               \* the main thread's position inside setMixOutput
    \* history
    lastOp            \* the last call made and what it returned

VARIABLES
    \* the main process's surroundings
    now,              \* the steady clock, in units of TickMs milliseconds
    timers,           \* the timers setTimeout has scheduled, each named by its due time
    disk              \* the content of audio-routing.json, or NoFile

VARIABLES
    \* the driver plug-in inside the audio server
    g_driver,         \* the driver object the entry point keeps, or NoDriver
    hal,              \* what the entry point has constructed and returned so far
    endpoint          \* nominal rate and stream formats of one virtual endpoint

VARIABLES
    \* one mixer with one input channel, followed callback by callback
    rsMixer,          \* the AudioMixer
    rsStats,          \* the frames its callbacks have asked for and moved so far
    resampler,        \* one SampleRateConverter called on its own
    lastConvert       \* what its latest convert() call was given, read, wrote and returned

VARIABLES
    \* the audio HAL as one start() or stop() of a mixer drives it
    halCalls          \* the IOProc calls of the latest start() or stop(), in order

VARIABLES
    \* the main process and the panel
    connection,       \* the module-level connection: an index into connections, or NoConnection
    connections,      \* the PCPanelConnection objects made so far
    callers           \* where each invocation of connectToDevice stands

plugVars == <<g_driver, hal, endpoint>>
rsVars == <<rsMixer, rsStats, resampler, lastConvert>>
hidVars == <<connection, connections, callers>>
osVars == <<osDevices, osDefaultOutput, osRate, plugVars, rsVars, halCalls, hidVars>>
rmVars == <<config, mixerHandles, isInitialized, saveTimeout, js>>
evVars == <<now, timers, disk>>
mxVars == <<osVars, ioProcs, outSamples, ioCalls, g_mixers, rmVars, lastOp, evVars>>

vars == <<lbVars, mxVars>>

\* ------------------------------------------------------------------------
\* LoopbackBuffer (driver)
\* ------------------------------------------------------------------------
BufIdx == 0 .. (kBufferSize - 1)

ZeroBuffer == [i \in BufIdx |-> 0]

WrIdle == [pc |-> "idle", wp |-> 0, n |-> 0, first |-> 0, space |-> 0, toWrite |-> 0]
RdIdle == [pc |-> "idle", wp |-> 0, rp |-> 0, n |-> 0, toRead |-> 0, dst |-> <<>>,
           since |-> 0]
CtlIdle == [pc |-> "idle", handler |-> "none"]

\* the state LoopbackBuffer() constructs
LoopbackInit ==
    /\ buffer_ = ZeroBuffer
    /\ writePos_ = 0
    /\ readPos_ = 0
    /\ underrunCount_ = 0
    /\ wr = WrIdle
    /\ rd = RdIdle
    /\ ctl = CtlIdle
    /\ handlerCalls = 0
    /\ nextId = 1
    /\ accepted = <<>>
    /\ lastWrite = [n |-> 0, space |-> 0, adv |-> 0]
    /\ delivered = <<>>
    /\ sessionFirstId = 1
    /\ staleRead = FALSE

\* a write() that takes the whole ring as free whatever is unread
SpaceOfWholeRing(wp, rp) == kBufferSize

\* a write() that finds no space while the used count is above the capacity
SpaceOfRefusing(wp, rp) ==
    IF USub(wp, rp) > kBufferSize THEN 0 ELSE kBufferSize - USub(wp, rp)

\* write(): the free space; a used count above the capacity is taken as 0
SpaceOf(wp, rp) ==
    kBufferSize - (IF USub(wp, rp) > kBufferSize THEN 0 ELSE USub(wp, rp))

\* a read() that takes the whole ring as available whatever was written
AvailableOfWholeRing(wp, rp) == kBufferSize

\* read(): the bytes available; a count above the capacity is taken as 0
AvailableOf(wp, rp) == IF USub(wp, rp) > kBufferSize THEN 0 ELSE USub(wp, rp)

\* src byte k (0-based) of the write in flight
SrcByte(k) == wr.first + k

\* the ring after memcpy of src[from .. from+len-1] to index at
CopyIn(buf, at, from, len) ==
    [i \in BufIdx |-> IF i >= at /\ i < at + len THEN SrcByte(from + (i - at)) ELSE buf[i]]

\* write(): load writePos_ (a client hands over n bytes)
WriteBegin(n) ==
    /\ wr.pc = "idle"
    /\ ioRunning
    /\ nextId + n - 1 <= MaxBytes
    /\ wr' = [WrIdle EXCEPT !.pc = "loadRp", !.wp = writePos_, !.n = n, !.first = nextId]
    /\ nextId' = nextId + n
    /\ UNCHANGED <<buffer_, writePos_, readPos_, underrunCount_, rd, ctl, ioRunning, handlerCalls, trackHistory,
                   accepted, lastWrite, delivered, sessionFirstId, staleRead>>
    /\ UNCHANGED mxVars

\* write(): load writePos_ (a client hands over n bytes of a steady signal; the
\* bytes are not told apart)
WriteBeginSteady(n) ==
    /\ wr.pc = "idle"
    /\ ioRunning
    /\ wr' = [WrIdle EXCEPT !.pc = "loadRp", !.wp = writePos_, !.n = n, !.first = nextId]
    /\ UNCHANGED <<buffer_, writePos_, readPos_, underrunCount_, rd, ctl, ioRunning, handlerCalls, trackHistory,
                   nextId, accepted, lastWrite, delivered, sessionFirstId, staleRead>>
    /\ UNCHANGED mxVars

\* write(): load readPos_, compute space and toWrite; return when the ring is full
WriteLoadRp ==
    /\ wr.pc = "loadRp"
    /\ LET space == SpaceOf(wr.wp, readPos_)
           toWrite == Min(wr.n, space)
       IN IF toWrite = 0
          THEN /\ wr' = WrIdle
               /\ lastWrite' = IF trackHistory
                                THEN [n |-> wr.n, space |-> space, adv |-> 0]
                                ELSE lastWrite
          ELSE /\ wr' = [wr EXCEPT !.pc = "copy1", !.space = space, !.toWrite = toWrite]
               /\ UNCHANGED lastWrite
    /\ UNCHANGED <<buffer_, writePos_, readPos_, underrunCount_, rd, ctl, ioRunning, handlerCalls, trackHistory,
                   nextId, accepted, delivered, sessionFirstId, staleRead>>
    /\ UNCHANGED mxVars

WriteFirstChunk == Min(wr.toWrite, kBufferSize - (wr.wp % kBufferSize))

\* write(): first memcpy, up to the end of the ring
WriteCopy1 ==
    /\ wr.pc = "copy1"
    /\ buffer_' = CopyIn(buffer_, wr.wp % kBufferSize, 0, WriteFirstChunk)
    /\ wr' = [wr EXCEPT !.pc = IF wr.toWrite > WriteFirstChunk THEN "copy2" ELSE "store"]
    /\ UNCHANGED <<writePos_, readPos_, underrunCount_, rd, ctl, ioRunning, handlerCalls, trackHistory,
                   nextId, accepted, lastWrite, delivered, sessionFirstId, staleRead>>
    /\ UNCHANGED mxVars

\* write(): second memcpy, the wrapped part
WriteCopy2 ==
    /\ wr.pc = "copy2"
    /\ buffer_' = CopyIn(buffer_, 0, WriteFirstChunk, wr.toWrite - WriteFirstChunk)
    /\ wr' = [wr EXCEPT !.pc = "store"]
    /\ UNCHANGED <<writePos_, readPos_, underrunCount_, rd, ctl, ioRunning, handlerCalls, trackHistory,
                   nextId, accepted, lastWrite, delivered, sessionFirstId, staleRead>>
    /\ UNCHANGED mxVars

\* write(): publish the new writePos_
WriteStore ==
    /\ wr.pc = "store"
    /\ writePos_' = (wr.wp + wr.toWrite) % SizeModulus
    /\ lastWrite' = IF trackHistory
                    THEN [n |-> wr.n, space |-> wr.space, adv |-> wr.toWrite]
                    ELSE lastWrite
    /\ accepted' = IF trackHistory
                   THEN accepted \o [k \in 1 .. wr.toWrite |-> SrcByte(k - 1)]
                   ELSE accepted
    /\ wr' = WrIdle
    /\ UNCHANGED <<buffer_, readPos_, underrunCount_, rd, ctl, ioRunning, handlerCalls, trackHistory,
                   nextId, delivered, sessionFirstId, staleRead>>
    /\ UNCHANGED mxVars

\* read(): load writePos_ (a client asks for n bytes)
ReadBegin(n) ==
    /\ rd.pc = "idle"
    /\ ioRunning
    /\ underrunCount_ < MaxUnderruns
    /\ rd' = [RdIdle EXCEPT !.pc = "loadRp", !.wp = writePos_, !.n = n,
                            !.since = sessionFirstId]
    /\ UNCHANGED <<buffer_, writePos_, readPos_, underrunCount_, wr, ctl, ioRunning, handlerCalls, trackHistory,
                   nextId, accepted, lastWrite, delivered, sessionFirstId, staleRead>>
    /\ UNCHANGED mxVars

\* read(): load readPos_, compute available and toRead
ReadLoadRp ==
    /\ rd.pc = "loadRp"
    /\ LET toRead == Min(rd.n, AvailableOf(rd.wp, readPos_))
       IN rd' = [rd EXCEPT !.pc = IF toRead > 0 THEN "copy1" ELSE "fill",
                           !.rp = readPos_, !.toRead = toRead]
    /\ UNCHANGED <<buffer_, writePos_, readPos_, underrunCount_, wr, ctl, ioRunning, handlerCalls, trackHistory,
                   nextId, accepted, lastWrite, delivered, sessionFirstId, staleRead>>
    /\ UNCHANGED mxVars

ReadFirstChunk == Min(rd.toRead, kBufferSize - (rd.rp % kBufferSize))

\* the bytes memcpy takes out of the ring: len bytes from index at
CopyOut(buf, at, len) == [k \in 1 .. len |-> buf[at + (k - 1)]]

\* read(): first memcpy, up to the end of the ring
ReadCopy1 ==
    /\ rd.pc = "copy1"
    /\ rd' = [rd EXCEPT !.dst = CopyOut(buffer_, rd.rp % kBufferSize, ReadFirstChunk),
                        !.pc = IF rd.toRead > ReadFirstChunk THEN "copy2" ELSE "store"]
    /\ UNCHANGED <<buffer_, writePos_, readPos_, underrunCount_, wr, ctl, ioRunning, handlerCalls, trackHistory,
                   nextId, accepted, lastWrite, delivered, sessionFirstId, staleRead>>
    /\ UNCHANGED mxVars

\* read(): second memcpy, the wrapped part
ReadCopy2 ==
    /\ rd.pc = "copy2"
    /\ rd' = [rd EXCEPT !.dst = rd.dst \o CopyOut(buffer_, 0, rd.toRead - ReadFirstChunk),
                        !.pc = "store"]
    /\ UNCHANGED <<buffer_, writePos_, readPos_, underrunCount_, wr, ctl, ioRunning, handlerCalls, trackHistory,
                   nextId, accepted, lastWrite, delivered, sessionFirstId, staleRead>>
    /\ UNCHANGED mxVars

\* read(): publish the new readPos_
ReadStore ==
    /\ rd.pc = "store"
    /\ readPos_' = (rd.rp + rd.toRead) % SizeModulus
    /\ rd' = [rd EXCEPT !.pc = "fill"]
    /\ UNCHANGED <<buffer_, writePos_, underrunCount_, wr, ctl, ioRunning, handlerCalls, trackHistory,
                   nextId, accepted, lastWrite, delivered, sessionFirstId, staleRead>>
    /\ UNCHANGED mxVars

\* a read() that counts every short read as an underrun
UnderrunAfterShortRead(count, n, toRead) ==
    IF toRead < n THEN count + 1 ELSE count

\* the underrun counter after read()'s silence fill
UnderrunAfterRead(count, n, toRead) ==
    IF toRead < n /\ toRead = 0 THEN count + 1 ELSE count

\* read(): fill the tail with silence, count an underrun, return toRead
ReadFill ==
    /\ rd.pc = "fill"
    /\ underrunCount_' = UnderrunAfterRead(underrunCount_, rd.n, rd.toRead)
    /\ delivered' = IF trackHistory THEN delivered \o rd.dst ELSE delivered
    /\ staleRead' = (staleRead \/ \E k \in 1 .. Len(rd.dst) :
                                     rd.dst[k] # 0 /\ rd.dst[k] < rd.since)
    /\ rd' = RdIdle
    /\ UNCHANGED <<buffer_, writePos_, readPos_, wr, ctl, ioRunning, handlerCalls, trackHistory,
                   nextId, accepted, lastWrite, sessionFirstId>>
    /\ UNCHANGED mxVars

\* OnStartIO: the control thread enters clear() and stores writePos_
OnStartIO ==
    /\ ctl.pc = "idle"
    /\ ~ioRunning
    /\ handlerCalls < MaxHandlerCalls
    /\ handlerCalls' = handlerCalls + 1
    /\ writePos_' = 0
    /\ ctl' = [pc |-> "clearReadPos", handler |-> "OnStartIO"]
    /\ UNCHANGED <<buffer_, readPos_, underrunCount_, wr, rd, ioRunning, trackHistory,
                   nextId, accepted, lastWrite, delivered, sessionFirstId, staleRead>>
    /\ UNCHANGED mxVars

\* OnStopIO: the control thread enters clear() and stores writePos_
OnStopIO ==
    /\ ctl.pc = "idle"
    /\ ioRunning
    /\ handlerCalls < MaxHandlerCalls
    /\ handlerCalls' = handlerCalls + 1
    /\ writePos_' = 0
    /\ ctl' = [pc |-> "clearReadPos", handler |-> "OnStopIO"]
    /\ UNCHANGED <<buffer_, readPos_, underrunCount_, wr, rd, ioRunning, trackHistory,
                   nextId, accepted, lastWrite, delivered, sessionFirstId, staleRead>>
    /\ UNCHANGED mxVars

\* clear(): readPos_.store(0)
ClearReadPos ==
    /\ ctl.pc = "clearReadPos"
    /\ readPos_' = 0
    /\ ctl' = [ctl EXCEPT !.pc = "clearUnderrun"]
    /\ UNCHANGED <<buffer_, writePos_, underrunCount_, wr, rd, ioRunning, handlerCalls, trackHistory,
                   nextId, accepted, lastWrite, delivered, sessionFirstId, staleRead>>
    /\ UNCHANGED mxVars

\* clear(): underrunCount_.store(0)
ClearUnderrun ==
    /\ ctl.pc = "clearUnderrun"
    /\ underrunCount_' = 0
    /\ ctl' = [ctl EXCEPT !.pc = "memset"]
    /\ UNCHANGED <<buffer_, writePos_, readPos_, wr, rd, ioRunning, handlerCalls, trackHistory,
                   nextId, accepted, lastWrite, delivered, sessionFirstId, staleRead>>
    /\ UNCHANGED mxVars

\* clear(): memset of the ring; the handler is about to return
ClearMemset ==
    /\ ctl.pc = "memset"
    /\ buffer_' = ZeroBuffer
    /\ ctl' = [ctl EXCEPT !.pc = "done"]
    /\ UNCHANGED <<writePos_, readPos_, underrunCount_, wr, rd, ioRunning, handlerCalls, trackHistory,
                   nextId, accepted, lastWrite, delivered, sessionFirstId, staleRead>>
    /\ UNCHANGED mxVars

\* the handler returns to the host; a new IO session starts or the old one ends
HandlerReturn ==
    /\ ctl.pc = "done"
    /\ ioRunning' = (ctl.handler = "OnStartIO")
    /\ ctl' = CtlIdle
    /\ sessionFirstId' = nextId
    /\ UNCHANGED <<accepted, delivered>>
    /\ UNCHANGED <<buffer_, writePos_, readPos_, underrunCount_, wr, rd, handlerCalls, trackHistory,
                   nextId, lastWrite, staleRead>>
    /\ UNCHANGED mxVars

\* ------------------------------------------------------------------------
\* The operating system's audio devices
\* ------------------------------------------------------------------------
kAudioObjectUnknown == 0

\* the delay of the save timer and the window of the activity flag, in milliseconds
SaveDelayMs == 1000
ActivityWindowMs == 500

\* the clock counts ticks of one activity window
TickMs == ActivityWindowMs
SaveDelay == SaveDelayMs \div TickMs
ActivityWindow == ActivityWindowMs \div TickMs

\* the devices a machine can have; a device's id is its index, and pcpanel
\* says whether its name starts with 'PCPanel'
OsDeviceTable ==
    << [name |-> "PCPanel K1", pcpanel |-> TRUE, hasOutput |-> TRUE],
       [name |-> "PCPanel K2", pcpanel |-> TRUE, hasOutput |-> TRUE],
       [name |-> "PCPanel Voice Chat", pcpanel |-> TRUE, hasOutput |-> TRUE],
       [name |-> "Speakers", pcpanel |-> FALSE, hasOutput |-> TRUE],
       [name |-> "Headphones", pcpanel |-> FALSE, hasOutput |-> TRUE] >>

DeviceIds == DOMAIN OsDeviceTable

\* sample rates in units of 300 Hz: 147 is 44100 Hz, 160 is 48000 Hz
DefaultRate == 48000 \div 300
SampleRates == {44100 \div 300, 48000 \div 300}

\* findDeviceByName: the id of the present device of that name
findDeviceByName(name) ==
    IF \E d \in osDevices : OsDeviceTable[d].name = name
    THEN CHOOSE d \in osDevices : OsDeviceTable[d].name = name
    ELSE kAudioObjectUnknown

\* listAudioDevices, in id order
RECURSIVE listFrom(_)
listFrom(d) ==
    IF d > Len(OsDeviceTable) THEN <<>>
    ELSE (IF d \in osDevices
          THEN <<[id |-> d, name |-> OsDeviceTable[d].name,
                  hasOutput |-> OsDeviceTable[d].hasOutput]>>
          ELSE <<>>) \o listFrom(d + 1)

listAudioDevices == listFrom(1)

\* what AudioDeviceCreateIOProcID / AudioDeviceStart do on each device in one call
FaultKinds == {"none", "create", "start"}

\* an IOProc of mixer h registered and started on a device
InputProc(h, dev) == [mixer |-> h, kind |-> "input", device |-> dev]
OutputProc(h, dev) == [mixer |-> h, kind |-> "output", device |-> dev]

\* ------------------------------------------------------------------------
\* AudioMixer (native addon)
\* ------------------------------------------------------------------------
\* gains are numerators over GainDenom: 255 is 1.0
GainDenom == 255

\* sizeof(Float32) and the bytes of a stereo frame
kSampleBytes == 4
kBytesPerFrame == 8

\* frames of a ring at the default rate (the addon asks for ten seconds)
RingFrames == 4

Max(a, b) == IF a >= b THEN a ELSE b

\* std::max(0.0f, std::min(1.0f, gain))
ClampGain(g) == Max(0, Min(GainDenom, g))

NoRing == [present |-> FALSE, capacity_ |-> 0, writePos_ |-> 0, readPos_ |-> 0, buffer_ |-> <<>>]
NoConverter == [present |-> FALSE, inputRate_ |-> 0, outputRate_ |-> 0, phase_ |-> 0]

\* SampleRateConverter(inputRate, outputRate, 2); phase_ is a numerator over outputRate_
NewConverter(inRate, outRate) ==
    [present |-> TRUE, inputRate_ |-> inRate, outputRate_ |-> outRate, phase_ |-> 0]

\* InputChannel() as addInput fills it in
NewInputChannel(dev, deviceName) ==
    [deviceId |-> dev, name |-> deviceName, inputProcID |-> FALSE,
     ringBuffer |-> NoRing, converter |-> NoConverter, inputSampleRate |-> DefaultRate,
     gain |-> GainDenom, enabled |-> TRUE, lastActivityTime |-> 0]

\* AudioMixer(name)
NewMixer(mixerName) ==
    [name_ |-> mixerName, inputs_ |-> <<>>, outputDevice_ |-> kAudioObjectUnknown,
     outputProcID_ |-> FALSE, running_ |-> FALSE, masterVolume_ |-> GainDenom,
     outputSampleRate_ |-> DefaultRate]

InputIndex(m, deviceName) ==
    IF \E i \in DOMAIN m.inputs_ : m.inputs_[i].name = deviceName
    THEN CHOOSE i \in DOMAIN m.inputs_ : m.inputs_[i].name = deviceName
    ELSE 0

\* AudioMixer::addInput
addInput(m, deviceName) ==
    LET dev == findDeviceByName(deviceName) IN
    IF dev = kAudioObjectUnknown THEN [mixer |-> m, ok |-> FALSE]
    ELSE IF InputIndex(m, deviceName) # 0 THEN [mixer |-> m, ok |-> TRUE]
    ELSE [mixer |-> [m EXCEPT !.inputs_ = Append(@, NewInputChannel(dev, deviceName))],
          ok |-> TRUE]

\* AudioMixer::setInputGain
setInputGain(m, deviceName, gain) ==
    LET i == InputIndex(m, deviceName) IN
    IF i = 0 THEN [mixer |-> m, ok |-> FALSE]
    ELSE [mixer |-> [m EXCEPT !.inputs_[i].gain = ClampGain(gain)], ok |-> TRUE]

\* a setInputEnabled that adds the device as a new input when inputs_ does not hold it
setInputEnabledAdding(m, deviceName, enabled) ==
    LET i == InputIndex(m, deviceName)
        dev == findDeviceByName(deviceName)
    IN  IF i = 0
        THEN IF dev = kAudioObjectUnknown THEN [mixer |-> m, ok |-> FALSE]
             ELSE [mixer |-> [m EXCEPT !.inputs_ =
                                Append(@, [NewInputChannel(dev, deviceName)
                                                EXCEPT !.enabled = enabled])],
                   ok |-> TRUE]
        ELSE [mixer |-> [m EXCEPT !.inputs_[i].enabled = enabled], ok |-> TRUE]

\* AudioMixer::setInputEnabled
setInputEnabled(m, deviceName, enabled) ==
    LET i == InputIndex(m, deviceName) IN
    IF i = 0 THEN [mixer |-> m, ok |-> FALSE]
    ELSE [mixer |-> [m EXCEPT !.inputs_[i].enabled = enabled], ok |-> TRUE]

\* AudioMixer::setMasterVolume
setMasterVolume(m, volume) == [m EXCEPT !.masterVolume_ = ClampGain(volume)]

\* a setOutput that does not look at running_
setOutputUnguarded(m, outputDevice) ==
    [mixer |-> [m EXCEPT !.outputDevice_ = outputDevice], ok |-> TRUE]

\* AudioMixer::setOutput
setOutput(m, outputDevice) ==
    IF m.running_ THEN [mixer |-> m, ok |-> FALSE]
    ELSE [mixer |-> [m EXCEPT !.outputDevice_ = outputDevice], ok |-> TRUE]

\* IOProc calls followed
MaxIoCalls == 4

\* a Float32 sample is a numerator over SampleDenom
SampleDenom == 2

\* byte k of the Float32 s; the bytes of 0.0 are zero bytes
ZeroByte == <<0, 0>>
ByteOf(s, k) == IF s = 0 THEN ZeroByte ELSE <<s, k>>

\* the bytes of a buffer of Float32 samples
BytesOf(samples) ==
    [j \in 1 .. (Len(samples) * kSampleBytes) |->
        ByteOf(samples[((j - 1) \div kSampleBytes) + 1], (j - 1) % kSampleBytes)]

\* stands for the Float32 that bytes of different samples make up
TornSample == 3

\* the Float32 four bytes are read as
FloatOf(b) ==
    IF \A k \in 1 .. kSampleBytes : b[k] = ZeroByte THEN 0
    ELSE IF \A k \in 1 .. kSampleBytes : b[k] = <<b[1][1], k - 1>> THEN b[1][1]
    ELSE TornSample

\* a byte buffer read as Float32 samples
FloatsOf(bytes) ==
    [i \in 1 .. (Len(bytes) \div kSampleBytes) |->
        FloatOf(SubSeq(bytes, (i - 1) * kSampleBytes + 1, i * kSampleBytes))]

\* RingBuffer(sizeInFrames, 2, sizeof(Float32) * 2)
NewRing(sizeInFrames) ==
    [present |-> TRUE, capacity_ |-> sizeInFrames * kBytesPerFrame,
     writePos_ |-> 0, readPos_ |-> 0,
     buffer_ |-> [i \in 0 .. (sizeInFrames * kBytesPerFrame - 1) |-> ZeroByte]]

\* (wp >= rp) ? (wp - rp) : (capacity_ - rp + wp)
RingUsed(r) ==
    IF r.writePos_ >= r.readPos_ THEN r.writePos_ - r.readPos_
    ELSE r.capacity_ - r.readPos_ + r.writePos_

\* RingBuffer::write
RingWrite(r, data) ==
    LET space == r.capacity_ - RingUsed(r) - 1
        toWrite == Min(Len(data), space)
        writeIdx == r.writePos_ % r.capacity_
    IN  IF toWrite = 0 THEN r
        ELSE [r EXCEPT !.buffer_ =
                    [i \in DOMAIN @ |->
                        IF (i - writeIdx + r.capacity_) % r.capacity_ < toWrite
                        THEN data[((i - writeIdx + r.capacity_) % r.capacity_) + 1]
                        ELSE @[i]],
                !.writePos_ = (r.writePos_ + toWrite) % r.capacity_]

\* RingBuffer::read: the ring it leaves, the destination buffer and the bytes read
RingRead(r, bytes) ==
    LET toRead == Min(bytes, RingUsed(r))
        readIdx == r.readPos_ % r.capacity_
    IN  [ring |-> IF toRead > 0
                  THEN [r EXCEPT !.readPos_ = (r.readPos_ + toRead) % r.capacity_]
                  ELSE r,
         data |-> [j \in 1 .. bytes |->
                    IF j <= toRead THEN r.buffer_[(readIdx + j - 1) % r.capacity_]
                    ELSE ZeroByte],
         bytesRead |-> toRead]

\* SampleRateConverter::convert, the while loop; phase is a numerator over outputRate_
\* and so is every output sample
RECURSIVE convertLoop(_, _, _, _, _)
convertLoop(cv, input, inputFrames, maxOutputFrames, st) ==
    IF ~(Len(st.output) \div 2 < maxOutputFrames /\ st.inputIdx < inputFrames) THEN st
    ELSE
    LET idx0 == st.phase \div cv.outputRate_
        frac == st.phase % cv.outputRate_
        idx1 == IF idx0 + 1 >= inputFrames THEN idx0 ELSE idx0 + 1
        phase1 == st.phase + cv.inputRate_
    IN  IF idx0 >= inputFrames THEN st
        ELSE convertLoop(cv, input, inputFrames, maxOutputFrames,
                [phase |-> phase1,
                 inputIdx |-> phase1 \div cv.outputRate_,
                 reads |-> st.reads \cup {idx0, idx1},
                 writes |-> st.writes \cup {Len(st.output) \div 2},
                 output |-> st.output \o
                    [ch \in 1 .. 2 |->
                        input[idx0 * 2 + ch] * cv.outputRate_
                            + (input[idx1 * 2 + ch] - input[idx0 * 2 + ch]) * frac]])

\* a convert() that leaves phase_ where the loop has taken it
convertKeepingPhase(cv, input, inputFrames, maxOutputFrames) ==
    IF cv.inputRate_ = cv.outputRate_
    THEN [converter |-> cv,
          output |-> [i \in 1 .. (Min(inputFrames, maxOutputFrames) * 2) |->
                        input[i] * cv.outputRate_],
          frames |-> Min(inputFrames, maxOutputFrames),
          reads |-> 0 .. (Min(inputFrames, maxOutputFrames) - 1),
          writes |-> 0 .. (Min(inputFrames, maxOutputFrames) - 1)]
    ELSE
    LET st == convertLoop(cv, input, inputFrames, maxOutputFrames,
                          [phase |-> cv.phase_, inputIdx |-> 0, reads |-> {}, writes |-> {},
                           output |-> <<>>])
    IN  [converter |-> [cv EXCEPT !.phase_ = st.phase],
         output |-> st.output,
         frames |-> Len(st.output) \div 2,
         reads |-> st.reads,
         writes |-> st.writes]

\* a convert() that takes inputFrames off phase_ and keeps what is left, below zero or not
convertUnclamped(cv, input, inputFrames, maxOutputFrames) ==
    IF cv.inputRate_ = cv.outputRate_
    THEN [converter |-> cv,
          output |-> [i \in 1 .. (Min(inputFrames, maxOutputFrames) * 2) |->
                        input[i] * cv.outputRate_],
          frames |-> Min(inputFrames, maxOutputFrames),
          reads |-> 0 .. (Min(inputFrames, maxOutputFrames) - 1),
          writes |-> 0 .. (Min(inputFrames, maxOutputFrames) - 1)]
    ELSE
    LET st == convertLoop(cv, input, inputFrames, maxOutputFrames,
                          [phase |-> cv.phase_, inputIdx |-> 0, reads |-> {}, writes |-> {},
                           output |-> <<>>])
    IN  [converter |-> [cv EXCEPT !.phase_ = st.phase - inputFrames * cv.outputRate_],
         output |-> st.output,
         frames |-> Len(st.output) \div 2,
         reads |-> st.reads,
         writes |-> st.writes]

\* SampleRateConverter::convert: the converter it leaves, the output samples (numerators
\* over SampleDenom * outputRate_) and the number of output frames
convert(cv, input, inputFrames, maxOutputFrames) ==
    IF cv.inputRate_ = cv.outputRate_
    THEN [converter |-> cv,
          output |-> [i \in 1 .. (Min(inputFrames, maxOutputFrames) * 2) |->
                        input[i] * cv.outputRate_],
          frames |-> Min(inputFrames, maxOutputFrames),
          reads |-> 0 .. (Min(inputFrames, maxOutputFrames) - 1),
          writes |-> 0 .. (Min(inputFrames, maxOutputFrames) - 1)]
    ELSE
    LET st == convertLoop(cv, input, inputFrames, maxOutputFrames,
                          [phase |-> cv.phase_, inputIdx |-> 0, reads |-> {}, writes |-> {},
                           output |-> <<>>])
    IN  [converter |-> [cv EXCEPT !.phase_ =
                            Max(0, st.phase - inputFrames * cv.outputRate_)],
         output |-> st.output,
         frames |-> Len(st.output) \div 2,
         reads |-> st.reads,
         writes |-> st.writes]

\* the ring start() asks for: ten seconds of the input rate, scaled down
RingSizeInFrames(inRate) == (inRate * RingFrames) \div DefaultRate

\* the nominal rate AudioObjectGetPropertyData yields; the preset stays for a device that is gone
RateOf(dev) == IF dev \in osDevices THEN osRate[dev] ELSE DefaultRate

\* how creating and starting an IOProc on a device goes in this call
FaultOn(dev, f) == IF dev \in osDevices THEN f ELSE "create"

\* the faults of one start() call: one kind per input device and one for the output
FaultChoices == [input : [DeviceIds -> FaultKinds], output : FaultKinds]
NoFaults == [input |-> [d \in DeviceIds |-> "none"], output |-> "none"]

\* start(): the loop body for one input channel
StartInput(ch, outRate, f) ==
    LET inRate == RateOf(ch.deviceId) IN
    [ch EXCEPT !.inputSampleRate = inRate,
               !.converter = IF inRate # outRate THEN NewConverter(inRate, outRate)
                             ELSE NoConverter,
               !.ringBuffer = NewRing(RingSizeInFrames(inRate)),
               !.inputProcID = IF f = "none" THEN TRUE
                               ELSE IF f = "create" THEN @ ELSE FALSE]

\* the input IOProcs of mixer h that its channels hold
InputProcsOf(m, h) ==
    {InputProc(h, m.inputs_[i].deviceId) : i \in {j \in DOMAIN m.inputs_ : m.inputs_[j].inputProcID}}

\* AudioMixer::stopInputs
stopInputs(m, h, procs) ==
    [mixer |-> [m EXCEPT !.inputs_ = [i \in DOMAIN @ |->
                                        [@[i] EXCEPT !.inputProcID = FALSE,
                                                     !.ringBuffer = NoRing]]],
     procs |-> procs \ InputProcsOf(m, h)]

\* a start() that leaves the input IOProcs in place when the output IOProc fails
startKeepingInputs(m, h, procs, faults) ==
    IF m.running_ THEN [mixer |-> m, procs |-> procs, ok |-> TRUE]
    ELSE
    LET dev == IF m.outputDevice_ = kAudioObjectUnknown THEN osDefaultOutput
               ELSE m.outputDevice_
        m1 == [m EXCEPT !.outputDevice_ = dev]
    IN  IF dev = kAudioObjectUnknown THEN [mixer |-> m1, procs |-> procs, ok |-> FALSE]
        ELSE
        LET outRate == RateOf(dev)
            m2 == [m1 EXCEPT !.outputSampleRate_ = outRate,
                             !.inputs_ = [i \in DOMAIN @ |->
                                 StartInput(@[i], outRate,
                                            FaultOn(@[i].deviceId, faults.input[@[i].deviceId]))]]
            procs2 == procs \cup InputProcsOf(m2, h)
        IN  IF FaultOn(dev, faults.output) = "none"
            THEN [mixer |-> [m2 EXCEPT !.outputProcID_ = TRUE, !.running_ = TRUE],
                  procs |-> procs2 \cup {OutputProc(h, dev)}, ok |-> TRUE]
            ELSE [mixer |-> m2, procs |-> procs2, ok |-> FALSE]

\* AudioMixer::start
start(m, h, procs, faults) ==
    IF m.running_ THEN [mixer |-> m, procs |-> procs, ok |-> TRUE]
    ELSE
    LET dev == IF m.outputDevice_ = kAudioObjectUnknown THEN osDefaultOutput
               ELSE m.outputDevice_
        m1 == [m EXCEPT !.outputDevice_ = dev]
    IN  IF dev = kAudioObjectUnknown THEN [mixer |-> m1, procs |-> procs, ok |-> FALSE]
        ELSE
        LET outRate == RateOf(dev)
            m2 == [m1 EXCEPT !.outputSampleRate_ = outRate,
                             !.inputs_ = [i \in DOMAIN @ |->
                                 StartInput(@[i], outRate,
                                            FaultOn(@[i].deviceId, faults.input[@[i].deviceId]))]]
            procs2 == procs \cup InputProcsOf(m2, h)
            stopped == stopInputs(m2, h, procs2)
        IN  IF FaultOn(dev, faults.output) = "none"
            THEN [mixer |-> [m2 EXCEPT !.outputProcID_ = TRUE, !.running_ = TRUE],
                  procs |-> procs2 \cup {OutputProc(h, dev)}, ok |-> TRUE]
            ELSE [mixer |-> stopped.mixer, procs |-> stopped.procs, ok |-> FALSE]

\* a stop() that leaves the output IOProc registered
stopKeepingOutput(m, h, procs) ==
    IF ~m.running_ THEN [mixer |-> m, procs |-> procs]
    ELSE stopInputs([m EXCEPT !.running_ = FALSE, !.outputProcID_ = FALSE], h, procs)

\* AudioMixer::stop
stop(m, h, procs) ==
    IF ~m.running_ THEN [mixer |-> m, procs |-> procs]
    ELSE
    LET m1 == [m EXCEPT !.running_ = FALSE, !.outputProcID_ = FALSE]
        procs1 == IF m.outputProcID_ THEN procs \ {OutputProc(h, m.outputDevice_)} ELSE procs
    IN  stopInputs(m1, h, procs1)

\* OutputIOProc, the body of the loop over inputs_ for one channel: the channel it
\* leaves, the samples it adds to the output before the gain (numerators over
\* SampleDenom * outRate) and the bytes the ring gave, Null when the channel is skipped
FetchChannel(ch, outRate, outputFrameCount) ==
    IF ~ch.enabled \/ ~ch.ringBuffer.present
    THEN [channel |-> ch, samples |-> <<>>, bytesRead |-> 0 - 1]
    ELSE IF ch.converter.present
    THEN LET inputFramesNeeded == ((outputFrameCount * ch.inputSampleRate) \div outRate) + 2
             r == RingRead(ch.ringBuffer, inputFramesNeeded * kBytesPerFrame)
             c == convert(ch.converter, FloatsOf(r.data), r.bytesRead \div kBytesPerFrame,
                          outputFrameCount)
         IN  IF r.bytesRead = 0
             THEN [channel |-> [ch EXCEPT !.ringBuffer = r.ring], samples |-> <<>>,
                   bytesRead |-> 0]
             ELSE [channel |-> [ch EXCEPT !.ringBuffer = r.ring, !.converter = c.converter],
                   samples |-> SubSeq(c.output, 1, Min(c.frames * 2, outputFrameCount * 2)),
                   bytesRead |-> r.bytesRead]
    ELSE LET r == RingRead(ch.ringBuffer, outputFrameCount * kBytesPerFrame)
             tempBuffer == FloatsOf(r.data)
         IN  [channel |-> [ch EXCEPT !.ringBuffer = r.ring],
              samples |-> [i \in 1 .. Min(r.bytesRead \div kSampleBytes, outputFrameCount * 2)
                            |-> tempBuffer[i] * outRate],
              bytesRead |-> r.bytesRead]

\* OutputIOProc, the loop over inputs_ from position k on; st.out is outSamples so far
RECURSIVE mixFrom(_, _, _, _)
mixFrom(m, k, outputFrameCount, st) ==
    IF k > Len(m.inputs_) THEN st
    ELSE
    LET f == FetchChannel(m.inputs_[k], m.outputSampleRate_, outputFrameCount) IN
    mixFrom(m, k + 1, outputFrameCount,
        [inputs |-> [st.inputs EXCEPT ![k] = f.channel],
         out |-> [i \in DOMAIN st.out |->
                    st.out[i] + (IF i <= Len(f.samples)
                                 THEN f.samples[i] * m.inputs_[k].gain ELSE 0)],
         bytesRead |-> Append(st.bytesRead, f.bytesRead)])

\* 1.0f in the units of an output sample: numerators over
\* GainDenom * GainDenom * SampleDenom * outputSampleRate_
FullScale(m) == GainDenom * GainDenom * SampleDenom * m.outputSampleRate_

\* an OutputIOProc without the clipping
NoClip(v, full) == v

\* if (s > 1.0f) s = 1.0f; else if (s < -1.0f) s = -1.0f
Clip(v, full) == IF v > full THEN full ELSE IF v < 0 - full THEN 0 - full ELSE v

\* AudioMixer::OutputIOProc for one output buffer of outputFrameCount stereo frames
outputIOProc(m, outputFrameCount) ==
    LET st == mixFrom(m, 1, outputFrameCount,
                      [inputs |-> m.inputs_,
                       out |-> [i \in 1 .. (outputFrameCount * 2) |-> 0],
                       bytesRead |-> <<>>])
    IN  [mixer |-> [m EXCEPT !.inputs_ = st.inputs],
         out |-> [i \in DOMAIN st.out |-> Clip(st.out[i] * m.masterVolume_, FullScale(m))],
         bytesRead |-> st.bytesRead]

\* AudioMixer::InputIOProc: the channel of the device, 0 without one
InputOfDevice(m, device) ==
    IF \E i \in DOMAIN m.inputs_ : m.inputs_[i].deviceId = device
    THEN CHOOSE i \in DOMAIN m.inputs_ :
            /\ m.inputs_[i].deviceId = device
            /\ \A j \in 1 .. (i - 1) : m.inputs_[j].deviceId # device
    ELSE 0

\* std::fabs(sample) > 0.001f, for a sample that is a numerator over SampleDenom
AboveThreshold(sample) ==
    (IF sample < 0 THEN 0 - sample ELSE sample) * 1000 > SampleDenom

\* AudioMixer::InputIOProc for one input buffer; the steady clock reads now
inputIOProc(m, device, samples) ==
    LET k == InputOfDevice(m, device)
        hasAudio == \E j \in DOMAIN samples : AboveThreshold(samples[j])
    IN
    IF k = 0 THEN m
    ELSE IF ~m.inputs_[k].ringBuffer.present \/ ~m.inputs_[k].enabled THEN m
    ELSE IF Len(samples) = 0 THEN m
    ELSE [m EXCEPT !.inputs_[k].ringBuffer = RingWrite(@, BytesOf(samples)),
                   !.inputs_[k].lastActivityTime = IF hasAudio THEN now ELSE @]

\* AudioMixer::getInputActivity
getInputActivity(m, deviceName) ==
    LET k == InputIndex(m, deviceName) IN
    IF k = 0 THEN FALSE
    ELSE now - m.inputs_[k].lastActivityTime < ActivityWindow

\* g_passthroughs: filled by StartPassthrough only, which neither the
\* AudioRoutingManager nor the main process calls
g_passthroughs == <<>>

\* AudioPassthrough::hasAudioActivity
hasAudioActivity(passthrough) == now - passthrough.lastActivityTime_ < ActivityWindow

\* GetDeviceActivity: an entry for every passthrough, under its device name
getDeviceActivity ==
    [name \in {g_passthroughs[i].deviceName : i \in DOMAIN g_passthroughs} |->
        LET i == CHOOSE j \in DOMAIN g_passthroughs :
                    /\ g_passthroughs[j].deviceName = name
                    /\ \A l \in DOMAIN g_passthroughs :
                            g_passthroughs[l].deviceName = name => l <= j
        IN  [isActive |-> hasAudioActivity(g_passthroughs[i].passthrough)]]

\* ------------------------------------------------------------------------
\* N-API functions of the addon (called on the main thread)
\* ------------------------------------------------------------------------
\* handle < g_mixers.size(); handle h is g_mixers[h + 1] here
ValidHandle(h) == h >= 0 /\ h < Len(g_mixers)

MixerAt(h) == g_mixers[h + 1]

\* what a call leaves in lastOp
OpRecord(name, args, ok) ==
    [op |-> name, args |-> args, ok |-> ok, wasRunning |-> FALSE,
     inputFailed |-> {}, outputFailed |-> FALSE, attempted |-> FALSE, started |-> ok,
     from |-> kAudioObjectUnknown]

\* the input devices of m whose IOProc fails to install or start under these faults
InputsFailing(m, faults) ==
    {m.inputs_[i].deviceId : i \in {j \in DOMAIN m.inputs_ :
        FaultOn(m.inputs_[j].deviceId, faults.input[m.inputs_[j].deviceId]) # "none"}}

\* the output device start() uses
StartDevice(m) ==
    IF m.outputDevice_ = kAudioObjectUnknown THEN osDefaultOutput ELSE m.outputDevice_

\* what a start() call leaves in lastOp
StartRecord(h, m, faults, ok) ==
    LET attempted == ~m.running_ /\ StartDevice(m) # kAudioObjectUnknown IN
    [op |-> "mixerStart", args |-> <<h>>, ok |-> ok, wasRunning |-> m.running_,
     inputFailed |-> IF attempted THEN InputsFailing(m, faults) ELSE {},
     outputFailed |-> attempted /\ FaultOn(StartDevice(m), faults.output) # "none",
     attempted |-> attempted, started |-> ok, from |-> kAudioObjectUnknown]

\* names passed to createMixer
MixerNames == {"Mixer"}

\* CreateMixer
CreateMixer(mixerName) ==
    /\ js.pc = "idle"
    /\ Len(g_mixers) < Cardinality(MixerNames)
    /\ g_mixers' = Append(g_mixers, NewMixer(mixerName))
    /\ lastOp' = OpRecord("createMixer", <<mixerName>>, TRUE)
    /\ UNCHANGED <<osVars, ioProcs, rmVars, lbVars, outSamples, ioCalls, evVars>>

\* MixerAddInput
MixerAddInput(h, deviceName) ==
    /\ js.pc = "idle"
    /\ ValidHandle(h)
    /\ \E r \in {addInput(MixerAt(h), deviceName)} :
        /\ g_mixers' = [g_mixers EXCEPT ![h + 1] = r.mixer]
        /\ lastOp' = [OpRecord("mixerAddInput", <<h, deviceName>>, r.ok)
                        EXCEPT !.wasRunning = MixerAt(h).running_]
    /\ UNCHANGED <<osVars, ioProcs, rmVars, lbVars, outSamples, ioCalls, evVars>>

\* MixerSetInputGain
MixerSetInputGain(h, deviceName, gain) ==
    /\ js.pc = "idle"
    /\ ValidHandle(h)
    /\ \E r \in {setInputGain(MixerAt(h), deviceName, gain)} :
        /\ g_mixers' = [g_mixers EXCEPT ![h + 1] = r.mixer]
        /\ lastOp' = OpRecord("mixerSetInputGain", <<h, deviceName, gain>>, r.ok)
    /\ UNCHANGED <<osVars, ioProcs, rmVars, lbVars, outSamples, ioCalls, evVars>>

\* MixerSetInputEnabled
MixerSetInputEnabled(h, deviceName, enabled) ==
    /\ js.pc = "idle"
    /\ ValidHandle(h)
    /\ \E r \in {setInputEnabled(MixerAt(h), deviceName, enabled)} :
        /\ g_mixers' = [g_mixers EXCEPT ![h + 1] = r.mixer]
        /\ lastOp' = OpRecord("mixerSetInputEnabled", <<h, deviceName, enabled>>, r.ok)
    /\ UNCHANGED <<osVars, ioProcs, rmVars, lbVars, outSamples, ioCalls, evVars>>

\* MixerSetOutput
MixerSetOutput(h, deviceId) ==
    /\ js.pc = "idle"
    /\ ValidHandle(h)
    /\ \E r \in {setOutput(MixerAt(h), deviceId)} :
        /\ g_mixers' = [g_mixers EXCEPT ![h + 1] = r.mixer]
        /\ lastOp' = [OpRecord("mixerSetOutput", <<h, deviceId>>, r.ok)
                        EXCEPT !.wasRunning = MixerAt(h).running_]
    /\ UNCHANGED <<osVars, ioProcs, rmVars, lbVars, outSamples, ioCalls, evVars>>

\* MixerStart
MixerStart(h, faults) ==
    /\ js.pc = "idle"
    /\ ValidHandle(h)
    /\ \E r \in {start(MixerAt(h), h, ioProcs, faults)} :
        /\ g_mixers' = [g_mixers EXCEPT ![h + 1] = r.mixer]
        /\ ioProcs' = r.procs
        /\ lastOp' = StartRecord(h, MixerAt(h), faults, r.ok)
    /\ UNCHANGED <<osVars, rmVars, lbVars, outSamples, ioCalls, evVars>>

\* MixerStop
MixerStop(h) ==
    /\ js.pc = "idle"
    /\ ValidHandle(h)
    /\ \E r \in {stop(MixerAt(h), h, ioProcs)} :
        /\ g_mixers' = [g_mixers EXCEPT ![h + 1] = r.mixer]
        /\ ioProcs' = r.procs
        /\ lastOp' = [OpRecord("mixerStop", <<h>>, TRUE)
                        EXCEPT !.wasRunning = MixerAt(h).running_]
    /\ UNCHANGED <<osVars, rmVars, lbVars, outSamples, ioCalls, evVars>>

\* one call of the audio HAL on an IOProc: AudioDeviceCreateIOProcID, AudioDeviceStart,
\* AudioDeviceStop or AudioDeviceDestroyIOProcID, and whether it returned noErr
HalCall(call, kind, device, ok) == [call |-> call, kind |-> kind, device |-> device, ok |-> ok]

\* the calls of the set-up of one IOProc under fault f
SetUpCalls(kind, device, f) ==
    IF f = "create" THEN <<HalCall("create", kind, device, FALSE)>>
    ELSE IF f = "start"
    THEN <<HalCall("create", kind, device, TRUE), HalCall("start", kind, device, FALSE),
           HalCall("destroy", kind, device, TRUE)>>
    ELSE <<HalCall("create", kind, device, TRUE), HalCall("start", kind, device, TRUE)>>

\* start(): the calls of the loop over inputs_, from channel i on
RECURSIVE startInputCalls(_, _, _)
startInputCalls(m, faults, i) ==
    IF i > Len(m.inputs_) THEN <<>>
    ELSE SetUpCalls("input", m.inputs_[i].deviceId,
                    FaultOn(m.inputs_[i].deviceId, faults.input[m.inputs_[i].deviceId]))
            \o startInputCalls(m, faults, i + 1)

\* stopInputs(): the calls of the loop over inputs_, from channel i on
RECURSIVE stopInputsCalls(_, _)
stopInputsCalls(m, i) ==
    IF i > Len(m.inputs_) THEN <<>>
    ELSE (IF m.inputs_[i].inputProcID
          THEN <<HalCall("stop", "input", m.inputs_[i].deviceId, TRUE),
                 HalCall("destroy", "input", m.inputs_[i].deviceId, TRUE)>>
          ELSE <<>>) \o stopInputsCalls(m, i + 1)

\* a start() that sets the output IOProc up before the loop over the inputs
startCallsOutputFirst(m, h, faults) ==
    IF m.running_ THEN <<>>
    ELSE
    LET dev == IF m.outputDevice_ = kAudioObjectUnknown THEN osDefaultOutput
               ELSE m.outputDevice_
    IN  IF dev = kAudioObjectUnknown THEN <<>>
        ELSE SetUpCalls("output", dev, FaultOn(dev, faults.output))
                \o startInputCalls(m, faults, 1)

\* AudioMixer::start: the HAL calls it makes, in order
startCalls(m, h, faults) ==
    IF m.running_ THEN <<>>
    ELSE
    LET dev == IF m.outputDevice_ = kAudioObjectUnknown THEN osDefaultOutput
               ELSE m.outputDevice_
    IN  IF dev = kAudioObjectUnknown THEN <<>>
        ELSE startInputCalls(m, faults, 1)
                \o SetUpCalls("output", dev, FaultOn(dev, faults.output))
                \o (IF FaultOn(dev, faults.output) = "none" THEN <<>>
                    ELSE stopInputsCalls(start(m, h, {}, [faults EXCEPT !.output = "none"]).mixer, 1))

\* AudioMixer::stop: the HAL calls it makes, in order
stopCalls(m) ==
    IF ~m.running_ THEN <<>>
    ELSE (IF m.outputProcID_
          THEN <<HalCall("stop", "output", m.outputDevice_, TRUE),
                 HalCall("destroy", "output", m.outputDevice_, TRUE)>>
          ELSE <<>>) \o stopInputsCalls(m, 1)

\* MixerStart, with the HAL calls of start() kept
TracedStart(h, faults) ==
    /\ js.pc = "idle"
    /\ ValidHandle(h)
    /\ \E r \in {start(MixerAt(h), h, ioProcs, faults)} :
        /\ g_mixers' = [g_mixers EXCEPT ![h + 1] = r.mixer]
        /\ ioProcs' = r.procs
        /\ lastOp' = StartRecord(h, MixerAt(h), faults, r.ok)
    /\ halCalls' = startCalls(MixerAt(h), h, faults)
    /\ UNCHANGED <<osDevices, osDefaultOutput, osRate, plugVars, rsVars, hidVars,
                   rmVars, lbVars, outSamples, ioCalls, evVars>>

\* MixerStop, with the HAL calls of stop() kept
TracedStop(h) ==
    /\ js.pc = "idle"
    /\ ValidHandle(h)
    /\ \E r \in {stop(MixerAt(h), h, ioProcs)} :
        /\ g_mixers' = [g_mixers EXCEPT ![h + 1] = r.mixer]
        /\ ioProcs' = r.procs
        /\ lastOp' = [OpRecord("mixerStop", <<h>>, TRUE)
                        EXCEPT !.wasRunning = MixerAt(h).running_]
    /\ halCalls' = stopCalls(MixerAt(h))
    /\ UNCHANGED <<osDevices, osDefaultOutput, osRate, plugVars, rsVars, hidVars,
                   rmVars, lbVars, outSamples, ioCalls, evVars>>

\* the HAL calls the input IOProc of mixer h on a device with one buffer of samples
InputIOProc(h, device, samples) ==
    /\ ValidHandle(h)
    /\ InputProc(h, device) \in ioProcs
    /\ ioCalls < MaxIoCalls
    /\ ioCalls' = ioCalls + 1
    /\ g_mixers' = [g_mixers EXCEPT ![h + 1] = inputIOProc(@, device, samples)]
    /\ lastOp' = OpRecord("inputIOProc", <<h, device>>, TRUE)
    /\ UNCHANGED <<osVars, ioProcs, rmVars, outSamples, lbVars, evVars>>

\* the HAL calls the output IOProc of mixer h for outputFrameCount frames
OutputIOProc(h, outputFrameCount) ==
    /\ ValidHandle(h)
    /\ OutputProc(h, MixerAt(h).outputDevice_) \in ioProcs
    /\ ioCalls < MaxIoCalls
    /\ ioCalls' = ioCalls + 1
    /\ \E r \in {outputIOProc(MixerAt(h), outputFrameCount)} :
        /\ g_mixers' = [g_mixers EXCEPT ![h + 1] = r.mixer]
        /\ outSamples' = r.out
        /\ lastOp' = OpRecord("outputIOProc", <<h, outputFrameCount, r.bytesRead>>, TRUE)
    /\ UNCHANGED <<osVars, ioProcs, rmVars, lbVars, evVars>>

\* stopAllMixers: every mixer of g_mixers stopped, in handle order
RECURSIVE stopAllFrom(_, _)
stopAllFrom(h, procs) ==
    IF h >= Len(g_mixers) THEN procs
    ELSE stopAllFrom(h + 1, stop(MixerAt(h), h, procs).procs)

\* StopAllMixers
StopAllMixers ==
    /\ js.pc = "idle"
    /\ Len(g_mixers) > 0
    /\ ioProcs' = stopAllFrom(0, ioProcs)
    /\ g_mixers' = <<>>
    /\ lastOp' = OpRecord("stopAllMixers", <<>>, TRUE)
    /\ UNCHANGED <<osVars, rmVars, lbVars, outSamples, ioCalls, evVars>>

\* ------------------------------------------------------------------------
\* Audio routing configuration (types.ts, config.ts)
\* ------------------------------------------------------------------------
\* null, for a device id or a gain
Null == 0 - 1

\* no entry in mixerHandles
NoHandle == 0 - 1

MixIds == {"personal", "voicechat"}

\* the first channels of CHANNEL_DEFINITIONS
CHANNEL_DEFINITIONS ==
    << [id |-> "k1", deviceName |-> "PCPanel K1", hardwareIndex |-> 0],
       [id |-> "k2", deviceName |-> "PCPanel K2", hardwareIndex |-> 1] >>

ChannelIds == {CHANNEL_DEFINITIONS[i].id : i \in DOMAIN CHANNEL_DEFINITIONS}

\* String.prototype.toUpperCase on the channel ids
toUpperCase(id) ==
    CASE id = "k1" -> "K1"
      [] id = "k2" -> "K2"
      [] OTHER -> id

\* createDefaultConfig
createDefaultConfig ==
    [inputChannels |->
        [i \in DOMAIN CHANNEL_DEFINITIONS |->
            [id |-> CHANNEL_DEFINITIONS[i].id,
             deviceName |-> CHANNEL_DEFINITIONS[i].deviceName,
             channelName |-> toUpperCase(CHANNEL_DEFINITIONS[i].id),
             hardwareIndex |-> CHANNEL_DEFINITIONS[i].hardwareIndex,
             volume |-> GainDenom, muted |-> FALSE]],
     mixBuses |->
        << [id |-> "personal", name |-> "Personal Mix", outputDeviceId |-> Null,
            channels |-> [i \in DOMAIN CHANNEL_DEFINITIONS |->
                            [channelId |-> CHANNEL_DEFINITIONS[i].id, enabled |-> TRUE,
                             gainOverride |-> Null]]],
           [id |-> "voicechat", name |-> "Voice Chat Mix", outputDeviceId |-> Null,
            channels |-> <<>>] >>,
     hardwareMapping |->
        [x \in {CHANNEL_DEFINITIONS[i].hardwareIndex : i \in DOMAIN CHANNEL_DEFINITIONS} |->
            [type |-> "channel-volume",
             targetId |-> CHANNEL_DEFINITIONS[
                 CHOOSE i \in DOMAIN CHANNEL_DEFINITIONS :
                     CHANNEL_DEFINITIONS[i].hardwareIndex = x].id]]]

\* Array.prototype.find: the least of the indexes that satisfy the test, or 0
FindIndex(found) ==
    IF found # {} THEN CHOOSE i \in found : \A j \in found : i <= j ELSE 0

ChannelIndex(cfg, channelId) ==
    FindIndex({i \in DOMAIN cfg.inputChannels : cfg.inputChannels[i].id = channelId})

BusIndex(cfg, mixId) ==
    FindIndex({i \in DOMAIN cfg.mixBuses : cfg.mixBuses[i].id = mixId})

MemberIndex(bus, channelId) ==
    FindIndex({i \in DOMAIN bus.channels : bus.channels[i].channelId = channelId})

\* the hardware indexes of the panel: 9 analog controls
HardwareIndexes == 0 .. 8

\* the property key of a hardware index: a JavaScript object is keyed by strings
PropertyKey(i) == ToString(i)

\* the hardware index a property key is read back under
IndexOfKey(key) == CHOOSE i \in HardwareIndexes : PropertyKey(i) = key

\* JSON.stringify of a configuration: arrays and objects field by field, null as
\* null, the hardware mapping under its property keys
JsonStringify(cfg) ==
    [f \in DOMAIN cfg |->
        IF f = "hardwareMapping"
        THEN [key \in {PropertyKey(i) : i \in DOMAIN cfg.hardwareMapping} |->
                cfg.hardwareMapping[IndexOfKey(key)]]
        ELSE cfg[f]]

\* JSON.parse of a file's content; config.hardwareMapping[hardwareIndex] then
\* finds the entry under the key of that index
JsonParse(data) ==
    [f \in DOMAIN data |->
        IF f = "hardwareMapping"
        THEN [i \in {IndexOfKey(key) : key \in DOMAIN data.hardwareMapping} |->
                data.hardwareMapping[PropertyKey(i)]]
        ELSE data[f]]

\* loaded.field ?? fallback, for a field that holds a string, a boolean or an array
\* when it is there
OrDefault(loaded, field, fallback) ==
    IF field \in DOMAIN loaded THEN loaded[field] ELSE fallback

\* loaded.field ?? fallback, for a field that holds a number or null when it is there
NumberOrDefault(loaded, field, fallback) ==
    IF field \in DOMAIN loaded /\ loaded[field] # Null THEN loaded[field] ELSE fallback

\* a mergeWithDefaults that takes the default for every falsy value (||, not ??)
mergeFalsyWithDefaults(loaded) ==
    LET defaults == createDefaultConfig IN
    [inputChannels |->
        [i \in DOMAIN defaults.inputChannels |->
            LET d == defaults.inputChannels[i]
                k == IF "inputChannels" \in DOMAIN loaded THEN ChannelIndex(loaded, d.id)
                     ELSE 0
            IN  IF k # 0
                THEN LET v == NumberOrDefault(loaded.inputChannels[k], "volume", d.volume)
                         u == OrDefault(loaded.inputChannels[k], "muted", d.muted)
                     IN  [d EXCEPT !.channelName =
                                       OrDefault(loaded.inputChannels[k], "channelName",
                                                 d.channelName),
                                   !.volume = IF v = 0 THEN d.volume ELSE v,
                                   !.muted = IF u THEN u ELSE d.muted]
                ELSE d],
     mixBuses |->
        [i \in DOMAIN defaults.mixBuses |->
            LET d == defaults.mixBuses[i]
                k == IF "mixBuses" \in DOMAIN loaded THEN BusIndex(loaded, d.id) ELSE 0
            IN  IF k # 0
                THEN [d EXCEPT !.name = OrDefault(loaded.mixBuses[k], "name", d.name),
                               !.outputDeviceId =
                                    NumberOrDefault(loaded.mixBuses[k], "outputDeviceId",
                                                    d.outputDeviceId),
                               !.channels =
                                    OrDefault(loaded.mixBuses[k], "channels", d.channels)]
                ELSE d],
     hardwareMapping |->
        IF "hardwareMapping" \in DOMAIN loaded /\ DOMAIN loaded.hardwareMapping # {}
        THEN loaded.hardwareMapping
        ELSE defaults.hardwareMapping]

\* mergeWithDefaults
mergeWithDefaults(loaded) ==
    LET defaults == createDefaultConfig IN
    [inputChannels |->
        [i \in DOMAIN defaults.inputChannels |->
            LET d == defaults.inputChannels[i]
                k == IF "inputChannels" \in DOMAIN loaded THEN ChannelIndex(loaded, d.id)
                     ELSE 0
            IN  IF k # 0
                THEN [d EXCEPT !.channelName =
                                    OrDefault(loaded.inputChannels[k], "channelName",
                                              d.channelName),
                               !.volume =
                                    NumberOrDefault(loaded.inputChannels[k], "volume",
                                                    d.volume),
                               !.muted =
                                    OrDefault(loaded.inputChannels[k], "muted", d.muted)]
                ELSE d],
     mixBuses |->
        [i \in DOMAIN defaults.mixBuses |->
            LET d == defaults.mixBuses[i]
                k == IF "mixBuses" \in DOMAIN loaded THEN BusIndex(loaded, d.id) ELSE 0
            IN  IF k # 0
                THEN [d EXCEPT !.name = OrDefault(loaded.mixBuses[k], "name", d.name),
                               !.outputDeviceId =
                                    NumberOrDefault(loaded.mixBuses[k], "outputDeviceId",
                                                    d.outputDeviceId),
                               !.channels =
                                    OrDefault(loaded.mixBuses[k], "channels", d.channels)]
                ELSE d],
     hardwareMapping |->
        IF "hardwareMapping" \in DOMAIN loaded /\ DOMAIN loaded.hardwareMapping # {}
        THEN loaded.hardwareMapping
        ELSE defaults.hardwareMapping]

\* no file at the configuration path
NoFile == [exists |-> FALSE]

\* loadConfig: the defaults without a file, the merge of what a file holds otherwise
loadConfig(file) ==
    IF file = NoFile THEN createDefaultConfig ELSE mergeWithDefaults(JsonParse(file))

\* saveConfig: the content writeFileSync leaves in the file
saveConfig(cfg) == JsonStringify(cfg)

\* updateChannelLabel
updateChannelLabel(cfg, channelId, channelName) ==
    [cfg EXCEPT !.inputChannels =
        [i \in DOMAIN @ |-> IF @[i].id = channelId
                            THEN [@[i] EXCEPT !.channelName = channelName]
                            ELSE @[i]]]

\* updateChannelVolume
updateChannelVolume(cfg, channelId, volume) ==
    [cfg EXCEPT !.inputChannels =
        [i \in DOMAIN @ |-> IF @[i].id = channelId
                            THEN [@[i] EXCEPT !.volume = Max(0, Min(GainDenom, volume))]
                            ELSE @[i]]]

\* updateChannelMuted
updateChannelMuted(cfg, channelId, muted) ==
    [cfg EXCEPT !.inputChannels =
        [i \in DOMAIN @ |-> IF @[i].id = channelId
                            THEN [@[i] EXCEPT !.muted = muted]
                            ELSE @[i]]]

\* updateMixBusChannel
updateMixBusChannel(cfg, mixId, channelId, enabled) ==
    [cfg EXCEPT !.mixBuses =
        [b \in DOMAIN @ |->
            LET bus == @[b]
                existingIndex == MemberIndex(bus, channelId)
                Other(c) == c.channelId # channelId
            IN  IF bus.id # mixId THEN bus
                ELSE IF enabled /\ existingIndex = 0
                THEN [bus EXCEPT !.channels =
                        Append(@, [channelId |-> channelId, enabled |-> TRUE,
                                   gainOverride |-> Null])]
                ELSE IF ~enabled /\ existingIndex # 0
                THEN [bus EXCEPT !.channels = SelectSeq(@, Other)]
                ELSE IF existingIndex # 0
                THEN [bus EXCEPT !.channels[existingIndex].enabled = enabled]
                ELSE bus]]

\* updateMixBusOutput
updateMixBusOutput(cfg, mixId, outputDeviceId) ==
    [cfg EXCEPT !.mixBuses =
        [b \in DOMAIN @ |-> IF @[b].id = mixId
                            THEN [@[b] EXCEPT !.outputDeviceId = outputDeviceId]
                            ELSE @[b]]]

\* ------------------------------------------------------------------------
\* AudioRoutingManager (main thread)
\* ------------------------------------------------------------------------
NoHandles == [b \in MixIds |-> NoHandle]

\* the call frame of setMixOutput; from is the device the bus's output IOProc ran on
\* when the call was made
JsIdle == [pc |-> "idle", mixId |-> "none", deviceId |-> Null, started |-> TRUE,
           from |-> kAudioObjectUnknown]

\* channel.muted ? 0 : channel.volume
EffectiveVolume(channel) == IF channel.muted THEN 0 ELSE channel.volume

\* the devices whose name starts with 'PCPanel'
pcpanelDevices ==
    LET IsPCPanel(d) == OsDeviceTable[d.id].pcpanel IN SelectSeq(listAudioDevices, IsPCPanel)

\* createPersonalMix: the loop over the PCPanel devices, from position k on
RECURSIVE personalInputsFrom(_, _, _, _)
personalInputsFrom(m, cfg, personalMix, k) ==
    IF k > Len(pcpanelDevices) THEN m
    ELSE
    LET device == pcpanelDevices[k]
        d == FindIndex({i \in DOMAIN CHANNEL_DEFINITIONS :
                            CHANNEL_DEFINITIONS[i].deviceName = device.name})
        c == IF d = 0 THEN 0 ELSE ChannelIndex(cfg, CHANNEL_DEFINITIONS[d].id)
    IN  IF c = 0 THEN personalInputsFrom(m, cfg, personalMix, k + 1)
        ELSE
        LET channel == cfg.inputChannels[c]
            x == MemberIndex(personalMix, channel.id)
            enabled == IF x = 0 THEN TRUE ELSE personalMix.channels[x].enabled
            m1 == addInput(m, device.name).mixer
            m2 == setInputGain(m1, device.name, EffectiveVolume(channel)).mixer
            m3 == setInputEnabled(m2, device.name, enabled).mixer
        IN  personalInputsFrom(m3, cfg, personalMix, k + 1)

\* createPersonalMix
createPersonalMix(cfg, mixers, handles, procs, faults) ==
    LET b == BusIndex(cfg, "personal") IN
    IF b = 0 THEN [mixers |-> mixers, handles |-> handles, procs |-> procs]
    ELSE
    LET personalMix == cfg.mixBuses[b]
        h == Len(mixers)
        m1 == personalInputsFrom(NewMixer("Personal Mix"), cfg, personalMix, 1)
        m2 == IF personalMix.outputDeviceId # Null
              THEN setOutput(m1, personalMix.outputDeviceId).mixer
              ELSE m1
        r == start(m2, h, procs, faults)
    IN  [mixers |-> Append(mixers, r.mixer),
         handles |-> [handles EXCEPT !["personal"] = h],
         procs |-> r.procs]

\* createVoiceChatMix: the loop over the bus's channels, from position k on
RECURSIVE voiceChatInputsFrom(_, _, _, _)
voiceChatInputsFrom(m, cfg, voiceChatMix, k) ==
    IF k > Len(voiceChatMix.channels) THEN m
    ELSE
    LET mixChannel == voiceChatMix.channels[k]
        c == ChannelIndex(cfg, mixChannel.channelId)
        dv == FindIndex({i \in DOMAIN pcpanelDevices :
                            c # 0 /\ pcpanelDevices[i].name = cfg.inputChannels[c].deviceName})
    IN  IF ~mixChannel.enabled \/ c = 0 \/ dv = 0
        THEN voiceChatInputsFrom(m, cfg, voiceChatMix, k + 1)
        ELSE
        LET channel == cfg.inputChannels[c]
            device == pcpanelDevices[dv]
            gain == IF mixChannel.gainOverride # Null THEN mixChannel.gainOverride
                    ELSE EffectiveVolume(channel)
            m1 == addInput(m, device.name).mixer
            m2 == setInputGain(m1, device.name, gain).mixer
            m3 == setInputEnabled(m2, device.name, TRUE).mixer
        IN  voiceChatInputsFrom(m3, cfg, voiceChatMix, k + 1)

\* createVoiceChatMix
createVoiceChatMix(cfg, mixers, handles, procs, faults) ==
    LET b == BusIndex(cfg, "voicechat")
        v == FindIndex({i \in DOMAIN listAudioDevices :
                            listAudioDevices[i].name = "PCPanel Voice Chat"})
    IN  IF b = 0 \/ v = 0 THEN [mixers |-> mixers, handles |-> handles, procs |-> procs]
        ELSE IF Len(cfg.mixBuses[b].channels) = 0
        THEN [mixers |-> mixers, handles |-> handles, procs |-> procs]
        ELSE
        LET voiceChatMix == cfg.mixBuses[b]
            h == Len(mixers)
            m1 == voiceChatInputsFrom(NewMixer("Voice Chat Mix"), cfg, voiceChatMix, 1)
            m2 == setOutput(m1, listAudioDevices[v].id).mixer
            r == start(m2, h, procs, faults)
        IN  [mixers |-> Append(mixers, r.mixer),
             handles |-> [handles EXCEPT !["voicechat"] = h],
             procs |-> r.procs]

\* a scheduleSave that leaves the timer it replaces running
scheduleSaveKeepingTimer(handle, scheduled, t) ==
    [saveTimeout |-> t + SaveDelay, timers |-> scheduled \cup {t + SaveDelay}]

\* scheduleSave at time t: clearTimeout of the pending timer, setTimeout of a new one
scheduleSave(handle, scheduled, t) ==
    [saveTimeout |-> t + SaveDelay,
     timers |-> (IF handle # Null THEN scheduled \ {handle} ELSE scheduled)
                    \cup {t + SaveDelay}]

\* the timer state an operation leaves: scheduleSave when it reached it
saveAfter(saved, handle, scheduled, t) ==
    IF saved THEN scheduleSave(handle, scheduled, t)
    ELSE [saveTimeout |-> handle, timers |-> scheduled]

\* saveConfigNow: clearTimeout of the pending timer and saveConfig
saveConfigNow(cfg, handle, scheduled) ==
    [saveTimeout |-> Null,
     timers |-> IF handle # Null THEN scheduled \ {handle} ELSE scheduled,
     disk |-> saveConfig(cfg)]

\* an initialize that builds the mixers whether or not it has run before
InitializeAgain(faultsPersonal, faultsVoiceChat) ==
    /\ js.pc = "idle"
    /\ \E p \in {createPersonalMix(config, g_mixers, mixerHandles, ioProcs, faultsPersonal)} :
       \E v \in {createVoiceChatMix(config, p.mixers, p.handles, p.procs, faultsVoiceChat)} :
            /\ g_mixers' = v.mixers
            /\ mixerHandles' = v.handles
            /\ ioProcs' = v.procs
            /\ isInitialized' = TRUE
    /\ lastOp' = [OpRecord("initialize", <<>>, TRUE) EXCEPT !.wasRunning = isInitialized]
    /\ UNCHANGED <<osVars, config, saveTimeout, js, lbVars, outSamples, ioCalls, evVars>>

\* initialize
Initialize(faultsPersonal, faultsVoiceChat) ==
    /\ js.pc = "idle"
    /\ IF isInitialized
       THEN UNCHANGED <<g_mixers, mixerHandles, ioProcs, isInitialized>>
       ELSE \E p \in {createPersonalMix(config, g_mixers, mixerHandles, ioProcs, faultsPersonal)} :
            \E v \in {createVoiceChatMix(config, p.mixers, p.handles, p.procs, faultsVoiceChat)} :
                /\ g_mixers' = v.mixers
                /\ mixerHandles' = v.handles
                /\ ioProcs' = v.procs
                /\ isInitialized' = TRUE
    /\ lastOp' = [OpRecord("initialize", <<>>, TRUE) EXCEPT !.wasRunning = isInitialized]
    /\ UNCHANGED <<osVars, config, saveTimeout, js, lbVars, outSamples, ioCalls, evVars>>

\* the mixers after mixerSetInputGain on every handle of mixerHandles
GainInAllMixers(mixers, handles, deviceName, gain) ==
    [i \in DOMAIN mixers |->
        IF \E b \in MixIds : handles[b] = i - 1
        THEN setInputGain(mixers[i], deviceName, gain).mixer
        ELSE mixers[i]]

\* a setChannelVolume that sends the volume to the mixers whether or not the channel
\* is muted
setChannelVolumeUnmuted(cfg, mixers, handles, channelId, volume) ==
    LET c == ChannelIndex(cfg, channelId) IN
    IF c = 0 THEN [config |-> cfg, mixers |-> mixers, saved |-> FALSE]
    ELSE [config |-> updateChannelVolume(cfg, channelId, volume),
          mixers |-> GainInAllMixers(mixers, handles, cfg.inputChannels[c].deviceName,
                                     volume),
          saved |-> TRUE]

\* setChannelVolume: the configuration and the mixers it leaves
setChannelVolume(cfg, mixers, handles, channelId, volume) ==
    LET c == ChannelIndex(cfg, channelId) IN
    IF c = 0 THEN [config |-> cfg, mixers |-> mixers, saved |-> FALSE]
    ELSE
    LET cfg1 == updateChannelVolume(cfg, channelId, volume)
        effectiveVolume == IF cfg1.inputChannels[c].muted THEN 0 ELSE volume
    IN  [config |-> cfg1,
         mixers |-> GainInAllMixers(mixers, handles, cfg.inputChannels[c].deviceName,
                                    effectiveVolume),
         saved |-> TRUE]

\* setChannelMuted: the configuration and the mixers it leaves
setChannelMuted(cfg, mixers, handles, channelId, muted) ==
    LET c == ChannelIndex(cfg, channelId) IN
    IF c = 0 THEN [config |-> cfg, mixers |-> mixers, saved |-> FALSE]
    ELSE
    LET cfg1 == updateChannelMuted(cfg, channelId, muted)
        effectiveVolume == IF muted THEN 0 ELSE cfg.inputChannels[c].volume
    IN  [config |-> cfg1,
         mixers |-> GainInAllMixers(mixers, handles, cfg.inputChannels[c].deviceName,
                                    effectiveVolume),
         saved |-> TRUE]

\* setChannelVolumeFromHardware: hardwareValue / 255, as a numerator over 255
setChannelVolumeFromHardware(cfg, mixers, handles, channelId, hardwareValue) ==
    setChannelVolume(cfg, mixers, handles, channelId, hardwareValue)

\* handleHardwareChange: the configuration and the mixers it leaves
handleHardwareChange(cfg, mixers, handles, hardwareIndex, value) ==
    IF hardwareIndex \notin DOMAIN cfg.hardwareMapping
    THEN [config |-> cfg, mixers |-> mixers, saved |-> FALSE]
    ELSE
    LET mapping == cfg.hardwareMapping[hardwareIndex] IN
    IF mapping.type = "channel-volume"
    THEN setChannelVolumeFromHardware(cfg, mixers, handles, mapping.targetId, value)
    ELSE IF mapping.type = "channel-mute"
    THEN LET c == ChannelIndex(cfg, mapping.targetId) IN
         IF value > 0 /\ c # 0
         THEN setChannelMuted(cfg, mixers, handles, mapping.targetId,
                              ~cfg.inputChannels[c].muted)
         ELSE [config |-> cfg, mixers |-> mixers, saved |-> FALSE]
    ELSE [config |-> cfg, mixers |-> mixers, saved |-> FALSE]


\* ipcMain 'set-channel-volume': setChannelVolume, then true
SetChannelVolume(channelId, volume) ==
    /\ js.pc = "idle"
    /\ \E r \in {setChannelVolume(config, g_mixers, mixerHandles, channelId, volume)} :
        /\ config' = r.config
        /\ g_mixers' = r.mixers
        /\ \E t \in {saveAfter(r.saved, saveTimeout, timers, now)} :
            /\ saveTimeout' = t.saveTimeout
            /\ timers' = t.timers
    /\ lastOp' = OpRecord("setChannelVolume", <<ChannelIndex(config, channelId) # 0>>, TRUE)
    /\ UNCHANGED <<osVars, ioProcs, mixerHandles, isInitialized, js, lbVars, outSamples, ioCalls,
                   now, disk>>

\* connection 'event' with a knob-change: handleHardwareChange
HandleHardwareChange(hardwareIndex, value) ==
    /\ js.pc = "idle"
    /\ \E r \in {handleHardwareChange(config, g_mixers, mixerHandles, hardwareIndex, value)} :
        /\ config' = r.config
        /\ g_mixers' = r.mixers
        /\ \E t \in {saveAfter(r.saved, saveTimeout, timers, now)} :
            /\ saveTimeout' = t.saveTimeout
            /\ timers' = t.timers
    /\ lastOp' = OpRecord("handleHardwareChange", <<hardwareIndex, value>>, TRUE)
    /\ UNCHANGED <<osVars, ioProcs, mixerHandles, isInitialized, js, lbVars, outSamples, ioCalls,
                   now, disk>>

\* ipcMain 'set-channel-muted': setChannelMuted, then true
SetChannelMuted(channelId, muted) ==
    /\ js.pc = "idle"
    /\ \E r \in {setChannelMuted(config, g_mixers, mixerHandles, channelId, muted)} :
        /\ config' = r.config
        /\ g_mixers' = r.mixers
        /\ \E t \in {saveAfter(r.saved, saveTimeout, timers, now)} :
            /\ saveTimeout' = t.saveTimeout
            /\ timers' = t.timers
    /\ lastOp' = OpRecord("setChannelMuted", <<ChannelIndex(config, channelId) # 0>>, TRUE)
    /\ UNCHANGED <<osVars, ioProcs, mixerHandles, isInitialized, js, lbVars, outSamples, ioCalls,
                   now, disk>>

\* the call sets the enabled flag of an input of the bus's mixer that was cleared
ReEnables(mixId, channelId, enabled) ==
    /\ enabled
    /\ ChannelIndex(config, channelId) # 0
    /\ mixId \in MixIds
    /\ mixerHandles[mixId] # NoHandle
    /\ \E i \in DOMAIN MixerAt(mixerHandles[mixId]).inputs_ :
            /\ MixerAt(mixerHandles[mixId]).inputs_[i].name =
                    config.inputChannels[ChannelIndex(config, channelId)].deviceName
            /\ ~MixerAt(mixerHandles[mixId]).inputs_[i].enabled

\* ipcMain 'set-channel-enabled-in-mix': setChannelEnabledInMix, then true
SetChannelEnabledInMix(mixId, channelId, enabled) ==
    /\ js.pc = "idle"
    /\ LET c == ChannelIndex(config, channelId) IN
        IF c = 0 THEN UNCHANGED <<config, g_mixers, saveTimeout, timers>>
        ELSE /\ config' = updateMixBusChannel(config, mixId, channelId, enabled)
             /\ \E t \in {scheduleSave(saveTimeout, timers, now)} :
                    /\ saveTimeout' = t.saveTimeout
                    /\ timers' = t.timers
             /\ g_mixers' =
                    IF mixId \in MixIds /\ mixerHandles[mixId] # NoHandle
                    THEN [g_mixers EXCEPT ![mixerHandles[mixId] + 1] =
                            setInputEnabled(@, config.inputChannels[c].deviceName,
                                            enabled).mixer]
                    ELSE g_mixers
    /\ lastOp' = OpRecord("setChannelEnabledInMix",
                         <<BusIndex(config, mixId) # 0, ChannelIndex(config, channelId) # 0,
                           ReEnables(mixId, channelId, enabled)>>,
                         TRUE)
    /\ UNCHANGED <<osVars, ioProcs, mixerHandles, isInitialized, js, lbVars, outSamples, ioCalls,
                   now, disk>>

\* ipcMain 'set-channel-label': setChannelLabel, then getState()
SetChannelLabel(channelId, label) ==
    /\ js.pc = "idle"
    /\ config' = updateChannelLabel(config, channelId, label)
    /\ \E t \in {scheduleSave(saveTimeout, timers, now)} :
        /\ saveTimeout' = t.saveTimeout
        /\ timers' = t.timers
    /\ lastOp' = OpRecord("setChannelLabel", <<ChannelIndex(config, channelId) # 0>>, TRUE)
    /\ UNCHANGED <<osVars, ioProcs, g_mixers, mixerHandles, isInitialized, js, lbVars,
                   outSamples, ioCalls, now, disk>>

\* connection 'event' with a button-change: forwarded to the renderer, nothing else
ButtonChangeEvent(index, pressed) ==
    /\ js.pc = "idle"
    /\ lastOp' = OpRecord("buttonChange", <<index, pressed>>, TRUE)
    /\ UNCHANGED <<osVars, ioProcs, g_mixers, rmVars, lbVars, outSamples, ioCalls, evVars>>

\* connection 'event' with a state-response: handleHardwareChange(i, analogValues[i])
\* for every analog value, from index i on
RECURSIVE stateResponseFrom(_, _, _, _, _, _)
stateResponseFrom(cfg, mixers, handles, analogValues, i, saved) ==
    IF i >= Len(analogValues) THEN [config |-> cfg, mixers |-> mixers, saved |-> saved]
    ELSE LET r == handleHardwareChange(cfg, mixers, handles, i, analogValues[i + 1])
         IN  stateResponseFrom(r.config, r.mixers, handles, analogValues, i + 1,
                               saved \/ r.saved)

StateResponseEvent(analogValues) ==
    /\ js.pc = "idle"
    /\ \E r \in {stateResponseFrom(config, g_mixers, mixerHandles, analogValues, 0, FALSE)} :
        /\ config' = r.config
        /\ g_mixers' = r.mixers
        /\ \E t \in {saveAfter(r.saved, saveTimeout, timers, now)} :
            /\ saveTimeout' = t.saveTimeout
            /\ timers' = t.timers
    /\ lastOp' = OpRecord("stateResponse", analogValues, TRUE)
    /\ UNCHANGED <<osVars, ioProcs, mixerHandles, isInitialized, js, lbVars, outSamples, ioCalls,
                   now, disk>>

\* ipcMain 'set-mix-output': setMixOutput enters; the configuration is updated and a
\* save scheduled; without a mixer for the bus the call is over
SetMixOutputBegin(mixId, deviceId) ==
    /\ js.pc = "idle"
    /\ config' = updateMixBusOutput(config, mixId, deviceId)
    /\ \E t \in {scheduleSave(saveTimeout, timers, now)} :
        /\ saveTimeout' = t.saveTimeout
        /\ timers' = t.timers
    /\ IF mixId \in MixIds /\ mixerHandles[mixId] # NoHandle
       THEN /\ js' = [pc |-> "mixerStop", mixId |-> mixId, deviceId |-> deviceId,
                      started |-> TRUE,
                      from |-> IF MixerAt(mixerHandles[mixId]).running_
                               THEN MixerAt(mixerHandles[mixId]).outputDevice_
                               ELSE kAudioObjectUnknown]
            /\ UNCHANGED lastOp
       ELSE /\ js' = JsIdle
            /\ lastOp' = OpRecord("setMixOutput", <<mixId, deviceId>>, TRUE)
    /\ UNCHANGED <<osVars, ioProcs, g_mixers, mixerHandles, isInitialized, lbVars, outSamples, ioCalls,
                   now, disk>>

\* setMixOutput: audioAddon.mixerStop(mixerHandle)
SetMixOutputStop ==
    /\ js.pc = "mixerStop"
    /\ LET h == mixerHandles[js.mixId]
           r == stop(MixerAt(h), h, ioProcs)
       IN  /\ g_mixers' = [g_mixers EXCEPT ![h + 1] = r.mixer]
           /\ ioProcs' = r.procs
    /\ js' = [js EXCEPT !.pc = "mixerSetOutput"]
    /\ UNCHANGED <<osVars, config, mixerHandles, isInitialized, saveTimeout, lastOp, lbVars, outSamples, ioCalls, evVars>>

\* setMixOutput: the device id to use, and audioAddon.mixerSetOutput if there is one
SetMixOutputSetOutput ==
    /\ js.pc = "mixerSetOutput"
    /\ LET h == mixerHandles[js.mixId]
           actualDeviceId == IF js.deviceId # Null THEN js.deviceId
                             ELSE IF osDefaultOutput # kAudioObjectUnknown
                             THEN osDefaultOutput ELSE Null
       IN  g_mixers' = IF actualDeviceId # Null
                       THEN [g_mixers EXCEPT ![h + 1] = setOutput(@, actualDeviceId).mixer]
                       ELSE g_mixers
    /\ js' = [js EXCEPT !.pc = "mixerStart"]
    /\ UNCHANGED <<osVars, ioProcs, config, mixerHandles, isInitialized, saveTimeout,
                   lastOp, lbVars, outSamples, ioCalls, evVars>>

\* setMixOutput: audioAddon.mixerStart(mixerHandle); its result is dropped
SetMixOutputStart(faults) ==
    /\ js.pc = "mixerStart"
    /\ LET h == mixerHandles[js.mixId]
           r == start(MixerAt(h), h, ioProcs, faults)
       IN  /\ g_mixers' = [g_mixers EXCEPT ![h + 1] = r.mixer]
           /\ ioProcs' = r.procs
           /\ js' = [js EXCEPT !.pc = "return", !.started = r.ok]
    /\ UNCHANGED <<osVars, config, mixerHandles, isInitialized, saveTimeout, lastOp, lbVars, outSamples, ioCalls, evVars>>

\* setMixOutput returns and the 'set-mix-output' handler returns true
SetMixOutputReturn ==
    /\ js.pc = "return"
    /\ lastOp' = [OpRecord("setMixOutput", <<js.mixId, js.deviceId>>, TRUE)
                    EXCEPT !.started = js.started, !.attempted = TRUE, !.from = js.from]
    /\ js' = JsIdle
    /\ UNCHANGED <<osVars, ioProcs, g_mixers, config, mixerHandles, isInitialized,
                   saveTimeout, lbVars, outSamples, ioCalls, evVars>>

\* shutdown
Shutdown ==
    /\ js.pc = "idle"
    /\ IF ~isInitialized
       THEN UNCHANGED <<ioProcs, g_mixers, mixerHandles, saveTimeout, isInitialized,
                        timers, disk>>
       ELSE /\ ioProcs' = stopAllFrom(0, ioProcs)
            /\ g_mixers' = <<>>
            /\ mixerHandles' = NoHandles
            /\ \E t \in {saveConfigNow(config, saveTimeout, timers)} :
                /\ saveTimeout' = t.saveTimeout
                /\ timers' = t.timers
                /\ disk' = t.disk
            /\ isInitialized' = FALSE
    /\ lastOp' = [OpRecord("shutdown", <<>>, TRUE) EXCEPT !.wasRunning = isInitialized]
    /\ UNCHANGED <<osVars, config, js, lbVars, outSamples, ioCalls, now>>

\* a timer of scheduleSave is due and its callback runs: saveConfigNow
SaveTimerFires ==
    /\ js.pc = "idle"
    /\ \E due \in timers :
        /\ due <= now
        /\ \E t \in {saveConfigNow(config, saveTimeout, timers \ {due})} :
            /\ saveTimeout' = t.saveTimeout
            /\ timers' = t.timers
            /\ disk' = t.disk
    /\ lastOp' = OpRecord("saveTimer", <<>>, TRUE)
    /\ UNCHANGED <<osVars, ioProcs, g_mixers, config, mixerHandles, isInitialized, js, lbVars,
                   outSamples, ioCalls, now>>

\* the clock advances by one tick between two handlers; a timer that is due runs
\* before the clock moves on
Tick ==
    /\ js.pc = "idle"
    /\ now < MaxClock
    /\ \A due \in timers : now < due
    /\ now' = now + 1
    /\ UNCHANGED <<osVars, ioProcs, outSamples, ioCalls, g_mixers, rmVars, lastOp, lbVars,
                   timers, disk>>

\* getState().channels[..].isActive, for the channel at index c of the configuration
IsActiveReported(c) ==
    IF config.inputChannels[c].deviceName \in DOMAIN getDeviceActivity
    THEN getDeviceActivity[config.inputChannels[c].deviceName].isActive
    ELSE FALSE

\* getState().mixBuses[..].isRunning
IsRunningReported(mixId) == mixerHandles[mixId] # NoHandle

\* the addon loaded and the AudioRoutingManager constructed from a configuration
RoutingConstructed(cfg) ==
    /\ ioProcs = {}
    /\ outSamples = <<>>
    /\ ioCalls = 0
    /\ g_mixers = <<>>
    /\ config = cfg
    /\ mixerHandles = NoHandles
    /\ isInitialized = FALSE
    /\ saveTimeout = Null
    /\ js = JsIdle
    /\ lastOp = OpRecord("none", <<>>, TRUE)
    /\ now = ActivityWindow
    /\ timers = {}

\* the addon loaded and the AudioRoutingManager constructed: loadConfig of the file
RoutingLoaded(file) ==
    /\ disk = file
    /\ RoutingConstructed(loadConfig(file))

\* ------------------------------------------------------------------------
\* One channel with a converter, callback by callback (addon)
\* ------------------------------------------------------------------------
MaxCycles == 4
ResampleRingFrames == 6
RatePairs == {<<44100 \div 300, 48000 \div 300>>, <<48000 \div 300, 44100 \div 300>>}

\* the buffers the input device delivers: one frame or two frames of a steady signal
ResampleBlocks == {<<1, 1>>, <<1, 1, 1, 1>>}

NoStats ==
    [cycles |-> 0, asked |-> 0, consumed |-> 0, starved |-> FALSE,
     last |-> [out |-> 0, fed |-> FALSE, converted |-> 0]]

\* ------------------------------------------------------------------------
\* The panel's HID connection (PCPanelConnection, parseInputPacket, connectToDevice)
\* ------------------------------------------------------------------------
ANALOG_COUNT == 9
BUTTON_COUNT == 5
INPUT_CODE_KNOB_CHANGE == 1
INPUT_CODE_BUTTON_CHANGE == 2
INPUT_CODE_STATE_RESPONSE == 3
NoConnection == 0
MaxConnections == 3

\* the invocations of connectToDevice: the initial scan, the 3-second interval and
\* the 'reconnect-device' request
Callers == {"initial", "periodic", "reconnect"}

\* PCPanelConnection(): device is null (FALSE) or an open HID handle (TRUE)
NewConnection ==
    [device |-> FALSE, connected |-> FALSE,
     analogValues |-> [i \in 1 .. ANALOG_COUNT |-> 0],
     buttonStates |-> [i \in 1 .. BUTTON_COUNT |-> FALSE]]

\* PCPanelConnection.connect; opens is whether new HID.HID(...) returns a handle
connect(c, opens) ==
    IF opens THEN [c EXCEPT !.device = TRUE, !.connected = TRUE] ELSE c

\* PCPanelConnection.disconnect
disconnect(c) == [c EXCEPT !.device = FALSE, !.connected = FALSE]

\* PCPanelConnection.isConnected
isConnected(c) == c.connected

\* connection?.isConnected()
ConnectionIsConnected ==
    connection # NoConnection /\ isConnected(connections[connection])

\* parseInputPacket returned null
NoEvent ==
    [type |-> "none", index |-> 0, value |-> 0, pressed |-> FALSE,
     analogValues |-> <<>>, buttonStates |-> <<>>]

\* parseInputPacket with the default profile; data[k] of the code is data[k + 1] here
parseInputPacket(data) ==
    IF Len(data) < 3 THEN NoEvent
    ELSE
    LET messageType == data[1]
        index == data[2]
        value == data[3]
    IN  IF messageType = INPUT_CODE_KNOB_CHANGE
        THEN [NoEvent EXCEPT !.type = "knob-change", !.index = index, !.value = value]
        ELSE IF messageType = INPUT_CODE_BUTTON_CHANGE
        THEN [NoEvent EXCEPT !.type = "button-change", !.index = index,
                             !.pressed = (value = 1)]
        ELSE IF messageType = INPUT_CODE_STATE_RESPONSE
        THEN IF Len(data) >= 1 + ANALOG_COUNT + BUTTON_COUNT
             THEN [NoEvent EXCEPT
                        !.type = "state-response",
                        !.analogValues = [i \in 1 .. ANALOG_COUNT |-> data[1 + i]],
                        !.buttonStates = [i \in 1 .. BUTTON_COUNT |->
                                            data[1 + ANALOG_COUNT + i] = 1]]
             ELSE NoEvent
        ELSE NoEvent

\* array[index] = value on a JavaScript array: an index at or past the length makes
\* the array longer, the elements in between are holes
ArrayAssign(array, index, value, hole) ==
    IF index < Len(array) THEN [array EXCEPT ![index + 1] = value]
    ELSE array \o [i \in 1 .. (index - Len(array)) |-> hole] \o <<value>>

\* PCPanelConnection.handleData: the state it leaves for an event
handleData(c, event) ==
    IF event.type = "knob-change"
    THEN [c EXCEPT !.analogValues = ArrayAssign(@, event.index, event.value, 0)]
    ELSE IF event.type = "button-change"
    THEN [c EXCEPT !.buttonStates = ArrayAssign(@, event.index, event.pressed, FALSE)]
    ELSE IF event.type = "state-response"
    THEN [c EXCEPT !.analogValues = event.analogValues,
                   !.buttonStates = event.buttonStates]
    ELSE c

\* no PCPanelConnection has been made and no scan is under way
HidIdle ==
    /\ connection = NoConnection
    /\ connections = <<>>
    /\ callers = [c \in Callers |-> "idle"]

\* no convert() call has been made
NoConvert ==
    [calls |-> 0, inputFrames |-> 0, maxOutputFrames |-> 0, frames |-> 0,
     reads |-> {}, writes |-> {}]

\* no converter is called on its own
ConverterIdle ==
    /\ resampler = NoConverter
    /\ lastConvert = NoConvert

\* no mixer is followed
ResamplerIdle ==
    /\ rsMixer = NewMixer("Voice Chat")
    /\ rsStats = NoStats
    /\ ConverterIdle
    /\ halCalls = <<>>
    /\ HidIdle

\* a running mixer as addInput and start() leave it: one channel of a device at
\* rates[1], the output device at rates[2]
ResamplerStarted(rates) ==
    [NewMixer("Voice Chat") EXCEPT
        !.inputs_ = << [NewInputChannel(1, "PCPanel K1") EXCEPT
                            !.inputSampleRate = rates[1],
                            !.converter = NewConverter(rates[1], rates[2]),
                            !.ringBuffer = NewRing(ResampleRingFrames),
                            !.inputProcID = TRUE] >>,
        !.outputDevice_ = 4,
        !.outputSampleRate_ = rates[2],
        !.outputProcID_ = TRUE,
        !.running_ = TRUE]

\* the HAL calls the input IOProc of the channel's device
ResampleInput(samples) ==
    /\ rsMixer.running_
    /\ rsMixer' = inputIOProc(rsMixer, 1, samples)
    /\ UNCHANGED <<rsStats, resampler, lastConvert, halCalls, hidVars, plugVars, osDevices, osDefaultOutput, osRate>>
    /\ UNCHANGED <<lbVars, ioProcs, outSamples, ioCalls, g_mixers, rmVars, lastOp, evVars>>

\* size_t inputFramesNeeded = static_cast<size_t>(outputFrameCount * ratio) + 2
InputFramesNeeded(m, outputFrameCount) ==
    ((outputFrameCount * m.inputs_[1].inputSampleRate) \div m.outputSampleRate_) + 2

\* the HAL calls the output IOProc for outputFrameCount frames: the loop body for
\* the channel
ResampleRender(outputFrameCount) ==
    /\ rsMixer.running_
    /\ rsStats.cycles < MaxCycles
    /\ \E f \in {FetchChannel(rsMixer.inputs_[1], rsMixer.outputSampleRate_, outputFrameCount)} :
            /\ rsMixer' = [rsMixer EXCEPT !.inputs_[1] = f.channel]
            /\ rsStats' =
                 [cycles |-> rsStats.cycles + 1,
                  asked |-> rsStats.asked + outputFrameCount,
                  consumed |-> rsStats.consumed + f.bytesRead,
                  starved |-> (rsStats.starved \/
                        f.bytesRead < InputFramesNeeded(rsMixer, outputFrameCount) * kBytesPerFrame),
                  last |-> [out |-> outputFrameCount,
                            fed |-> (f.bytesRead =
                                InputFramesNeeded(rsMixer, outputFrameCount) * kBytesPerFrame),
                            converted |-> Len(f.samples) \div 2]]
    /\ UNCHANGED <<resampler, lastConvert, halCalls, hidVars, plugVars, osDevices, osDefaultOutput, osRate>>
    /\ UNCHANGED <<lbVars, ioProcs, outSamples, ioCalls, g_mixers, rmVars, lastOp, evVars>>

\* ------------------------------------------------------------------------
\* The plug-in entry point and the endpoints' sample rate (driver)
\* ------------------------------------------------------------------------
kNumDevices == 9
MaxEntryCalls == 3
NoDriver == 0
NullRef == 0
Streams == {"output", "input"}
SupportedRates == {48000 \div 300, 44100 \div 300}
NoneQueued == [s \in Streams |-> 0]

\* the reference of a driver object: the address of its interface, one per object
GetReference(driver) == driver

\* an endpoint as PCPanelDriverEntry builds it: device and both streams at 48000 Hz
NewEndpoint ==
    [rate |-> DefaultRate, format |-> [s \in Streams |-> DefaultRate], pending |-> NoneQueued,
     status |-> "none", prior |-> 0, requested |-> 0]

NoEndpoint ==
    [rate |-> 0, format |-> [s \in Streams |-> 0], pending |-> NoneQueued,
     status |-> "none", prior |-> 0, requested |-> 0]

\* the plug-in as the audio server has loaded it, before it calls the entry point
PluginLoaded ==
    /\ g_driver = NoDriver
    /\ hal = [entryCalls |-> 0, drivers |-> 0, devices |-> 0, matched |-> FALSE, result |-> NullRef]
    /\ endpoint = NoEndpoint

\* an entry point that builds the driver on every call with the right type
PCPanelDriverEntryRebuilding(uuidMatches) ==
    /\ hal.entryCalls < MaxEntryCalls
    /\ IF ~uuidMatches
       THEN /\ hal' = [hal EXCEPT !.entryCalls = @ + 1, !.matched = FALSE, !.result = NullRef]
            /\ UNCHANGED <<g_driver, endpoint>>
       ELSE /\ g_driver' = hal.drivers + 1
            /\ endpoint' = NewEndpoint
            /\ hal' = [entryCalls |-> hal.entryCalls + 1, drivers |-> hal.drivers + 1,
                       devices |-> hal.devices + kNumDevices + 1, matched |-> TRUE,
                       result |-> GetReference(hal.drivers + 1)]
    /\ UNCHANGED <<osDevices, osDefaultOutput, osRate, rsVars, halCalls, hidVars>>
    /\ UNCHANGED <<lbVars, ioProcs, outSamples, ioCalls, g_mixers, rmVars, lastOp, evVars>>

\* PCPanelDriverEntry
PCPanelDriverEntry(uuidMatches) ==
    /\ hal.entryCalls < MaxEntryCalls
    /\ IF ~uuidMatches
       THEN /\ hal' = [hal EXCEPT !.entryCalls = @ + 1, !.matched = FALSE, !.result = NullRef]
            /\ UNCHANGED <<g_driver, endpoint>>
       ELSE IF g_driver # NoDriver
       THEN /\ hal' = [hal EXCEPT !.entryCalls = @ + 1, !.matched = TRUE,
                                  !.result = GetReference(g_driver)]
            /\ UNCHANGED <<g_driver, endpoint>>
       ELSE /\ g_driver' = hal.drivers + 1
            /\ endpoint' = NewEndpoint
            /\ hal' = [entryCalls |-> hal.entryCalls + 1, drivers |-> hal.drivers + 1,
                       devices |-> hal.devices + kNumDevices + 1, matched |-> TRUE,
                       result |-> GetReference(hal.drivers + 1)]
    /\ UNCHANGED <<osDevices, osDefaultOutput, osRate, rsVars, halCalls, hidVars>>
    /\ UNCHANGED <<lbVars, ioProcs, outSamples, ioCalls, g_mixers, rmVars, lastOp, evVars>>

\* what a SetPhysicalFormatAsync call can come to: the format is changed before
\* the caller goes on, the change is queued for the audio server, or the call fails
FormatOutcomes == {"applied", "queued", "failed"}

\* PCPanelDevice::SetNominalSampleRateImpl; parentOk is the status of
\* aspl::Device::SetNominalSampleRateImpl, outcome that of each stream's
\* SetPhysicalFormatAsync
SetNominalSampleRateImpl(rate, parentOk, outcome) ==
    /\ g_driver # NoDriver
    /\ IF ~parentOk
       THEN endpoint' = [endpoint EXCEPT !.status = "error", !.prior = endpoint.rate, !.requested = rate]
       ELSE endpoint' = [rate |-> rate,
                    format |-> [s \in Streams |->
                                  IF endpoint.format[s] # rate /\ outcome[s] = "applied"
                                  THEN rate ELSE endpoint.format[s]],
                    pending |-> [s \in Streams |->
                                  IF endpoint.format[s] # rate /\ outcome[s] = "queued"
                                  THEN rate ELSE endpoint.pending[s]],
                    status |-> "kAudioHardwareNoError",
                    prior |-> endpoint.rate,
                    requested |-> rate]
    /\ UNCHANGED <<g_driver, hal, osDevices, osDefaultOutput, osRate, rsVars, halCalls, hidVars>>
    /\ UNCHANGED <<lbVars, ioProcs, outSamples, ioCalls, g_mixers, rmVars, lastOp, evVars>>

\* the audio server performs a queued format change of a stream
PerformFormatChange(s) ==
    /\ endpoint.pending[s] # 0
    /\ endpoint' = [endpoint EXCEPT !.format[s] = endpoint.pending[s], !.pending[s] = 0]
    /\ UNCHANGED <<g_driver, hal, osDevices, osDefaultOutput, osRate, rsVars, halCalls, hidVars>>
    /\ UNCHANGED <<lbVars, ioProcs, outSamples, ioCalls, g_mixers, rmVars, lastOp, evVars>>

\* the addon and the routing manager of a machine where they are not used
RoutingIdle ==
    /\ PluginLoaded
    /\ ResamplerIdle
    /\ osDevices = DeviceIds
    /\ osDefaultOutput = kAudioObjectUnknown
    /\ osRate = [d \in DeviceIds |-> DefaultRate]
    /\ RoutingLoaded(NoFile)

\* ------------------------------------------------------------------------
\* Specifications of the driver
\* ------------------------------------------------------------------------
\* one writer and one reader on a device whose IO is running
InitLoopbackIO ==
    /\ LoopbackInit
    /\ ioRunning = TRUE
    /\ trackHistory = TRUE
    /\ RoutingIdle

NextLoopbackIO ==
    \/ \E n \in 1 .. MaxReq : WriteBegin(n)
    \/ WriteLoadRp
    \/ WriteCopy1
    \/ WriteCopy2
    \/ WriteStore
    \/ \E n \in 0 .. MaxReq : ReadBegin(n)
    \/ ReadLoadRp
    \/ ReadCopy1
    \/ ReadCopy2
    \/ ReadStore
    \/ ReadFill

SpecLoopbackIO == InitLoopbackIO /\ [][NextLoopbackIO]_vars

\* the device with its control thread: IO callbacks begin only while the
\* device runs, and nothing in the driver orders OnStartIO / OnStopIO with
\* a callback that is in flight
InitLoopback ==
    /\ LoopbackInit
    /\ ioRunning = FALSE
    /\ trackHistory = FALSE
    /\ RoutingIdle

NextLoopback ==
    \/ \E n \in 1 .. MaxReq : WriteBegin(n)
    \/ WriteLoadRp
    \/ WriteCopy1
    \/ WriteCopy2
    \/ WriteStore
    \/ \E n \in 0 .. MaxReq : ReadBegin(n)
    \/ ReadLoadRp
    \/ ReadCopy1
    \/ ReadCopy2
    \/ ReadStore
    \/ ReadFill
    \/ OnStartIO
    \/ OnStopIO
    \/ ClearReadPos
    \/ ClearUnderrun
    \/ ClearMemset
    \/ HandlerReturn

SpecLoopback == InitLoopback /\ [][NextLoopback]_vars

\* ------------------------------------------------------------------------
\* LoopbackBuffer of src/driver/src/Driver.cpp
\* ------------------------------------------------------------------------
\* write(): the loop that copies chunk by chunk and adds each chunk to writePos_
RECURSIVE driverWriteLoop(_, _, _, _)
driverWriteLoop(buf, wp, first, remaining) ==
    IF remaining = 0 THEN [buffer |-> buf, wp |-> wp]
    ELSE LET pos == wp % kBufferSize
             toWrite == Min(remaining, kBufferSize - pos)
         IN driverWriteLoop([i \in BufIdx |-> IF i >= pos /\ i < pos + toWrite
                                               THEN first + (i - pos) ELSE buf[i]],
                            (wp + toWrite) % SizeModulus, first + toWrite, remaining - toWrite)

\* write()
driverWrite(buf, wp, rp, first, n) == driverWriteLoop(buf, wp, first, n)

\* read(): the loop that copies chunk by chunk and adds each chunk to readPos_
RECURSIVE driverReadLoop(_, _, _, _)
driverReadLoop(buf, rp, dst, left) ==
    IF left = 0 THEN [dst |-> dst, rp |-> rp]
    ELSE LET pos == rp % kBufferSize
             chunk == Min(left, kBufferSize - pos)
         IN driverReadLoop(buf, (rp + chunk) % SizeModulus, dst \o CopyOut(buf, pos, chunk),
                           left - chunk)

\* read(): what is available is the unsigned difference of the positions
driverRead(buf, wp, rp, n) == driverReadLoop(buf, rp, <<>>, Min(n, USub(wp, rp)))

\* OnWriteMixedOutput: a client hands over n bytes
DriverWrite(n) ==
    /\ ioRunning
    /\ nextId + n - 1 <= MaxBytes
    /\ \E r \in {driverWrite(buffer_, writePos_, readPos_, nextId, n)} :
            /\ buffer_' = r.buffer
            /\ writePos_' = r.wp
            /\ accepted' = accepted \o [k \in 1 .. USub(r.wp, writePos_) |-> nextId + (k - 1)]
    /\ nextId' = nextId + n
    /\ UNCHANGED <<readPos_, underrunCount_, wr, rd, ctl, ioRunning, handlerCalls, trackHistory,
                   lastWrite, delivered, sessionFirstId, staleRead>>
    /\ UNCHANGED mxVars

\* OnReadClientInput: a client asks for n bytes
DriverRead(n) ==
    /\ ioRunning
    /\ Len(delivered) + n <= MaxBytes
    /\ \E r \in {driverRead(buffer_, writePos_, readPos_, n)} :
            /\ readPos_' = r.rp
            /\ delivered' = delivered \o r.dst
    /\ UNCHANGED <<buffer_, writePos_, underrunCount_, wr, rd, ctl, ioRunning, handlerCalls, trackHistory,
                   nextId, accepted, lastWrite, sessionFirstId, staleRead>>
    /\ UNCHANGED mxVars

\* OnStartIO / OnStopIO: the control thread enters clear() and stores writePos_
DriverClearBegin ==
    /\ ctl.pc = "idle"
    /\ handlerCalls < MaxHandlerCalls
    /\ handlerCalls' = handlerCalls + 1
    /\ writePos_' = 0
    /\ ctl' = [pc |-> "clearReadPos", handler |-> IF ioRunning THEN "OnStopIO" ELSE "OnStartIO"]
    /\ UNCHANGED <<buffer_, readPos_, underrunCount_, wr, rd, ioRunning, trackHistory,
                   nextId, accepted, lastWrite, delivered, sessionFirstId, staleRead>>
    /\ UNCHANGED mxVars

\* clear(): readPos_.store(0); the handler returns, and what was written and read
\* before belongs to the session that is over
DriverClearEnd ==
    /\ ctl.pc = "clearReadPos"
    /\ readPos_' = 0
    /\ ioRunning' = (ctl.handler = "OnStartIO")
    /\ ctl' = CtlIdle
    /\ sessionFirstId' = nextId
    /\ accepted' = <<>>
    /\ delivered' = <<>>
    /\ UNCHANGED <<buffer_, writePos_, underrunCount_, wr, rd, handlerCalls, trackHistory,
                   nextId, lastWrite, staleRead>>
    /\ UNCHANGED mxVars

\* one writer and one reader on the ring of Driver.cpp, call by call
InitDriverCpp ==
    /\ LoopbackInit
    /\ ioRunning = FALSE
    /\ trackHistory = TRUE
    /\ RoutingIdle

NextDriverCpp ==
    \/ \E n \in 1 .. MaxReq : DriverWrite(n)
    \/ \E n \in 1 .. MaxReq : DriverRead(n)
    \/ DriverClearBegin
    \/ DriverClearEnd

SpecDriverCpp == InitDriverCpp /\ [][NextDriverCpp]_vars

\* the positions clear() can leave behind when it runs while a write or a read is in
\* flight: the write's stale store lands between clear()'s two stores (writer ahead),
\* or the read's stale store lands after them (reader ahead)
StalePositions == {<<kBufferSize + 1, 0>>, <<0, kBufferSize - 1>>}

\* one writer and one reader on a ring whose positions such a clear() has left
\* more than the capacity apart; no further clear() runs
StuckRing ==
    /\ \E p \in StalePositions : writePos_ = p[1] /\ readPos_ = p[2]
    /\ buffer_ = ZeroBuffer
    /\ underrunCount_ = 0
    /\ wr = WrIdle
    /\ rd = RdIdle
    /\ ctl = CtlIdle
    /\ handlerCalls = MaxHandlerCalls
    /\ nextId = 1
    /\ accepted = <<>>
    /\ lastWrite = [n |-> 0, space |-> 0, adv |-> 0]
    /\ delivered = <<>>
    /\ sessionFirstId = 1
    /\ staleRead = FALSE
    /\ ioRunning = TRUE
    /\ RoutingIdle

InitStuck == StuckRing /\ trackHistory = TRUE

WriterStep ==
    \/ \E n \in 1 .. MaxReq : WriteBegin(n)
    \/ WriteLoadRp
    \/ WriteCopy1
    \/ WriteCopy2
    \/ WriteStore

ReaderStep ==
    \/ \E n \in 1 .. MaxReq : ReadBegin(n)
    \/ ReadLoadRp
    \/ ReadCopy1
    \/ ReadCopy2
    \/ ReadStore
    \/ ReadFill

NextStuck == WriterStep \/ ReaderStep

SpecStuck == InitStuck /\ [][NextStuck]_vars

\* the same ring under a writer that never runs out of bytes
InitStuckSteady == StuckRing /\ trackHistory = FALSE

SteadyWriterStep ==
    \/ \E n \in 1 .. MaxReq : WriteBeginSteady(n)
    \/ WriteLoadRp
    \/ WriteCopy1
    \/ WriteCopy2
    \/ WriteStore

NextStuckSteady == SteadyWriterStep \/ ReaderStep

\* the HAL runs the IO callbacks every cycle while IO is running: neither the writer
\* nor the reader waits forever
SpecStuckFair ==
    /\ InitStuckSteady
    /\ [][NextStuckSteady]_vars
    /\ WF_vars(SteadyWriterStep)
    /\ WF_vars(ReaderStep)

\* the audio server loads the plug-in and changes the rate of an endpoint
InitPlugin ==
    /\ LoopbackInit
    /\ ioRunning = FALSE
    /\ trackHistory = FALSE
    /\ RoutingIdle

NextPlugin ==
    \/ \E uuidMatches \in BOOLEAN : PCPanelDriverEntry(uuidMatches)
    \/ \E rate \in SupportedRates, parentOk \in BOOLEAN, outcome \in [Streams -> FormatOutcomes] :
            SetNominalSampleRateImpl(rate, parentOk, outcome)
    \/ \E s \in Streams : PerformFormatChange(s)

SpecPlugin == InitPlugin /\ [][NextPlugin]_vars

\* ------------------------------------------------------------------------
\* Specifications of the addon and of the routing manager
\* ------------------------------------------------------------------------
\* the LoopbackBuffer of an endpoint nobody uses
LoopbackParked ==
    /\ LoopbackInit
    /\ PluginLoaded
    /\ ResamplerIdle
    /\ ioRunning = FALSE
    /\ trackHistory = FALSE

\* the device names and ids, gains and faults the calls are made with
InputNames == {"PCPanel K1", "PCPanel K2"}
OutputIds == {4, 5}
GainInputs == {128, 300}
StartFaults ==
    {f \in FaultChoices : \A d \in DeviceIds : d \notin {1, 2} => f.input[d] = "none"}

\* the addon driven directly through its N-API functions
InitMixer ==
    /\ LoopbackParked
    /\ osDevices \in {DeviceIds, DeviceIds \ {2}}
    /\ osDefaultOutput \in {kAudioObjectUnknown, 4}
    /\ osRate = [d \in DeviceIds |-> DefaultRate]
    /\ RoutingLoaded(NoFile)

NextMixer ==
    \/ \E n \in MixerNames : CreateMixer(n)
    \/ \E h \in 0 .. (Cardinality(MixerNames) - 1), n \in InputNames : MixerAddInput(h, n)
    \/ \E h \in 0 .. (Cardinality(MixerNames) - 1), n \in InputNames, g \in GainInputs :
            MixerSetInputGain(h, n, g)
    \/ \E h \in 0 .. (Cardinality(MixerNames) - 1), n \in InputNames, e \in BOOLEAN :
            MixerSetInputEnabled(h, n, e)
    \/ \E h \in 0 .. (Cardinality(MixerNames) - 1), d \in OutputIds : MixerSetOutput(h, d)
    \/ \E h \in 0 .. (Cardinality(MixerNames) - 1), f \in StartFaults : MixerStart(h, f)
    \/ \E h \in 0 .. (Cardinality(MixerNames) - 1) : MixerStop(h)
    \/ StopAllMixers

SpecMixer == InitMixer /\ [][NextMixer]_vars

\* the addon driven through its N-API functions, start and stop followed call by call
NextStartStop ==
    \/ \E n \in MixerNames : CreateMixer(n)
    \/ \E h \in 0 .. (Cardinality(MixerNames) - 1), n \in InputNames : MixerAddInput(h, n)
    \/ \E h \in 0 .. (Cardinality(MixerNames) - 1), d \in OutputIds : MixerSetOutput(h, d)
    \/ \E h \in 0 .. (Cardinality(MixerNames) - 1), f \in StartFaults : TracedStart(h, f)
    \/ \E h \in 0 .. (Cardinality(MixerNames) - 1) : TracedStop(h)

SpecStartStop == InitMixer /\ [][NextStartStop]_vars

\* a file with k1 in the voice chat bus under a gain override
FileWithOverride ==
    saveConfig([createDefaultConfig EXCEPT
        !.mixBuses[2].channels =
            << [channelId |-> "k1", enabled |-> TRUE, gainOverride |-> 128] >>])

\* a file with a muted channel, both channels in the voice chat bus, a chosen output
\* and a knob mapped to mute
FileWithMute ==
    saveConfig([createDefaultConfig EXCEPT
        !.inputChannels[1].volume = 128,
        !.inputChannels[2].muted = TRUE,
        !.mixBuses[1].outputDeviceId = 5,
        !.mixBuses[2].channels =
            << [channelId |-> "k2", enabled |-> TRUE, gainOverride |-> Null],
               [channelId |-> "k1", enabled |-> TRUE, gainOverride |-> 0] >>,
        !.hardwareMapping =
            (0 :> [type |-> "channel-volume", targetId |-> "k1"]) @@
            (1 :> [type |-> "channel-mute", targetId |-> "k2"])])

ConfigFiles == {NoFile, FileWithOverride, FileWithMute}

\* faults of a start() in which one thing goes wrong
OutputStartFails == [NoFaults EXCEPT !.output = "start"]
OutputCreateFails == [NoFaults EXCEPT !.output = "create"]
InputStartFails == [NoFaults EXCEPT !.input[1] = "start"]

\* volumes the renderer sends, knob positions, and the devices a bus is switched to
VolumeInputs == {0 - 51, 300}
KnobValues == {0, 128}
KnobIndexes == {0, 1, 7}
SwitchTargets == {Null, 5}

\* the routing manager under volume, mute and membership operations
InitRouting ==
    /\ LoopbackParked
    /\ osDevices = DeviceIds
    /\ osDefaultOutput = 4
    /\ osRate = [d \in DeviceIds |-> DefaultRate]
    /\ \E f \in ConfigFiles : RoutingLoaded(f)

NextRouting ==
    \/ Initialize(NoFaults, NoFaults)
    \/ \E c \in ChannelIds, v \in VolumeInputs : SetChannelVolume(c, v)
    \/ \E x \in KnobIndexes, v \in KnobValues : HandleHardwareChange(x, v)
    \/ \E c \in ChannelIds, b \in BOOLEAN : SetChannelMuted(c, b)
    \/ \E e \in BOOLEAN : SetChannelEnabledInMix("voicechat", "k2", e)
    \/ SetMixOutputBegin("personal", 5)
    \/ SetMixOutputStop
    \/ SetMixOutputSetOutput
    \/ SetMixOutputStart(NoFaults)
    \/ SetMixOutputReturn

SpecRouting == InitRouting /\ [][NextRouting]_vars

\* the routing manager under initialize, output switches with faults, and shutdown
InitSwitch ==
    /\ LoopbackParked
    /\ osDevices = DeviceIds
    /\ osDefaultOutput \in {kAudioObjectUnknown, 4}
    /\ osRate = [d \in DeviceIds |-> DefaultRate]
    /\ \E f \in ConfigFiles : RoutingLoaded(f)

NextSwitch ==
    \/ \E fp, fv \in {NoFaults, OutputStartFails, InputStartFails} : Initialize(fp, fv)
    \/ \E b \in MixIds, d \in SwitchTargets : SetMixOutputBegin(b, d)
    \/ SetMixOutputStop
    \/ SetMixOutputSetOutput
    \/ \E f \in {NoFaults, OutputStartFails, OutputCreateFails} : SetMixOutputStart(f)
    \/ SetMixOutputReturn
    \/ Shutdown

SpecSwitch == InitSwitch /\ [][NextSwitch]_vars

\* a file with k1 at half volume, and in the voice chat bus k1 under a gain override
\* and k2
FileRender ==
    saveConfig([createDefaultConfig EXCEPT
        !.inputChannels[1].volume = 128,
        !.mixBuses[2].channels =
            << [channelId |-> "k1", enabled |-> TRUE, gainOverride |-> 128],
               [channelId |-> "k2", enabled |-> TRUE, gainOverride |-> Null] >>])

\* the buffers the input devices deliver, the frames an output buffer holds, and the
\* mixer whose IOProcs are followed: the voice chat mixer
InputBlocks == {<<2, 0 - 2>>, <<1, 2, 2, 1>>}
MaxOutFrames == 2
RenderHandles == {1}

\* the IOProcs of the voice chat mixer, PCPanel K1 running at 44100 Hz
InitRender ==
    /\ LoopbackParked
    /\ osDevices = DeviceIds
    /\ osDefaultOutput = 4
    /\ osRate = [d \in DeviceIds |-> IF d = 1 THEN 44100 \div 300 ELSE DefaultRate]
    /\ RoutingLoaded(FileRender)

NextRender ==
    \/ Initialize(NoFaults, NoFaults)
    \/ \E h \in RenderHandles, d \in {1, 2}, s \in InputBlocks : InputIOProc(h, d, s)
    \/ \E h \in RenderHandles, n \in 1 .. MaxOutFrames : OutputIOProc(h, n)
    \/ \E e \in BOOLEAN : SetChannelEnabledInMix("voicechat", "k2", e)

SpecRender == InitRender /\ [][NextRender]_vars

\* a channel at 44100 Hz into an output at 48000 Hz, or the other way round
InitResample ==
    /\ LoopbackInit
    /\ ioRunning = FALSE
    /\ trackHistory = FALSE
    /\ PluginLoaded
    /\ osDevices = DeviceIds
    /\ osDefaultOutput = kAudioObjectUnknown
    /\ osRate = [d \in DeviceIds |-> DefaultRate]
    /\ RoutingLoaded(NoFile)
    /\ \E rates \in RatePairs : rsMixer = ResamplerStarted(rates)
    /\ rsStats = NoStats
    /\ ConverterIdle
    /\ halCalls = <<>>
    /\ HidIdle

NextResample ==
    \/ \E s \in ResampleBlocks : ResampleInput(s)
    \/ \E n \in 1 .. MaxOutFrames : ResampleRender(n)

SpecResample == InitResample /\ [][NextResample]_vars

\* ---- SampleRateConverter::convert called on its own
MaxConvertCalls == 3
MaxConvertFrames == 3

\* the rates a converter is built for: both directions, and equal rates
ConvertRatePairs == RatePairs \cup {<<48000 \div 300, 48000 \div 300>>}

\* an input buffer of inputFrames stereo frames
ConvertInput(inputFrames) == [i \in 1 .. (inputFrames * 2) |-> 1]

\* one call of convert(input, inputFrames, output, maxOutputFrames)
Convert(inputFrames, maxOutputFrames) ==
    /\ lastConvert.calls < MaxConvertCalls
    /\ \E r \in {convert(resampler, ConvertInput(inputFrames), inputFrames, maxOutputFrames)} :
        /\ resampler' = r.converter
        /\ lastConvert' = [calls |-> lastConvert.calls + 1,
                           inputFrames |-> inputFrames,
                           maxOutputFrames |-> maxOutputFrames,
                           frames |-> r.frames,
                           reads |-> r.reads,
                           writes |-> r.writes]
    /\ UNCHANGED <<lbVars, osDevices, osDefaultOutput, osRate, plugVars, rsMixer, rsStats,
                   halCalls, hidVars, ioProcs, outSamples, ioCalls, g_mixers, rmVars, lastOp, evVars>>

InitConvert ==
    /\ LoopbackInit
    /\ ioRunning = FALSE
    /\ trackHistory = FALSE
    /\ PluginLoaded
    /\ osDevices = DeviceIds
    /\ osDefaultOutput = kAudioObjectUnknown
    /\ osRate = [d \in DeviceIds |-> DefaultRate]
    /\ RoutingLoaded(NoFile)
    /\ rsMixer = NewMixer("Voice Chat")
    /\ rsStats = NoStats
    /\ \E rates \in ConvertRatePairs : resampler = NewConverter(rates[1], rates[2])
    /\ lastConvert = NoConvert
    /\ halCalls = <<>>
    /\ HidIdle

NextConvert ==
    \E inputFrames \in 0 .. MaxConvertFrames, maxOutputFrames \in 0 .. MaxConvertFrames :
        Convert(inputFrames, maxOutputFrames)

SpecConvert == InitConvert /\ [][NextConvert]_vars

\* the buffers the input devices deliver while activity is followed: silence, and a
\* buffer with samples at full scale
ActivityBlocks == {<<0, 0>>, <<2, 0 - 2>>}

\* the input IOProcs of both mixers while the clock runs
InitActivity ==
    /\ LoopbackParked
    /\ osDevices = DeviceIds
    /\ osDefaultOutput = 4
    /\ osRate = [d \in DeviceIds |-> DefaultRate]
    /\ RoutingLoaded(FileRender)

NextActivity ==
    \/ Initialize(NoFaults, NoFaults)
    \/ \E h \in {0, 1}, d \in {1, 2}, s \in ActivityBlocks : InputIOProc(h, d, s)
    \/ Tick

SpecActivity == InitActivity /\ [][NextActivity]_vars

\* a file written by hand or by an older version: k1 silent and muted and without a
\* channelName, the voice chat bus without a name and with k1 as a disabled member,
\* knob 0 mapped to the mute of k1 and knob 3 to a channel that does not exist
FileEdited ==
    [inputChannels |-> << [id |-> "k1", volume |-> 0, muted |-> TRUE] >>,
     mixBuses |->
        << [id |-> "voicechat", outputDeviceId |-> Null,
            channels |-> << [channelId |-> "k1", enabled |-> FALSE,
                             gainOverride |-> Null] >>] >>,
     hardwareMapping |->
        ("0" :> [type |-> "channel-mute", targetId |-> "k1"]) @@
        ("3" :> [type |-> "channel-volume", targetId |-> "mic"])]

SaveFiles == {NoFile, FileEdited}

\* ids the renderer sends: one that exists and one that does not
ChannelArgs == {"k1", "zz"}
BusArgs == {"personal", "zz"}

\* the routing manager with its save timer, the configuration file and the clock
InitSave ==
    /\ LoopbackParked
    /\ osDevices = DeviceIds
    /\ osDefaultOutput = 4
    /\ osRate = [d \in DeviceIds |-> DefaultRate]
    /\ \E f \in SaveFiles : RoutingLoaded(f)

NextSave ==
    \/ Initialize(NoFaults, NoFaults)
    \/ SetChannelVolume("k1", 0)
    \/ SetChannelMuted("k1", TRUE)
    \/ SetChannelLabel("k1", "Music")
    \/ SetChannelEnabledInMix("voicechat", "k1", FALSE)
    \/ SetMixOutputBegin("personal", 5)
    \/ SetMixOutputStop
    \/ SetMixOutputSetOutput
    \/ SetMixOutputStart(NoFaults)
    \/ SetMixOutputReturn
    \/ HandleHardwareChange(0, 128)
    \/ Shutdown
    \/ SaveTimerFires
    \/ Tick

SpecSave == InitSave /\ [][NextSave]_vars

\* sink ids the renderer passes to setMixOutput: null, a PCPanel channel device and the
\* headphones; the default output of the system is the speakers or a channel device
FeedbackTargets == {Null, 1, 5}
DefaultOutputs == {1, 4}

\* the routing manager under output switches to any device
InitFeedback ==
    /\ LoopbackParked
    /\ osDevices = DeviceIds
    /\ osDefaultOutput \in DefaultOutputs
    /\ osRate = [d \in DeviceIds |-> DefaultRate]
    /\ \E f \in {NoFile, FileWithOverride} : RoutingLoaded(f)

NextFeedback ==
    \/ Initialize(NoFaults, NoFaults)
    \/ \E b \in MixIds, d \in FeedbackTargets : SetMixOutputBegin(b, d)
    \/ SetMixOutputStop
    \/ SetMixOutputSetOutput
    \/ SetMixOutputStart(NoFaults)
    \/ SetMixOutputReturn
    \/ Shutdown

SpecFeedback == InitFeedback /\ [][NextFeedback]_vars

\* what is left of connectToDevice once its awaits are over: connection = new
\* PCPanelConnection(), the listeners, connection.connect(device.path)
ConnectNew(c, opens) ==
    /\ Len(connections) < MaxConnections
    /\ connections' = Append(connections, connect(NewConnection, opens))
    /\ connection' = Len(connections) + 1
    /\ callers' = [callers EXCEPT ![c] = IF c = "initial" THEN "done" ELSE "idle"]

\* connectToDevice is invoked: it returns when the connection is connected and goes
\* into scanForDevices otherwise
ConnectToDevice(c) ==
    /\ callers[c] = "idle"
    /\ callers' = [callers EXCEPT ![c] =
                        IF ConnectionIsConnected
                        THEN (IF c = "initial" THEN "done" ELSE "idle")
                        ELSE "scanning"]
    /\ UNCHANGED <<connection, connections>>
    /\ UNCHANGED <<lbVars, osDevices, osDefaultOutput, osRate, plugVars, rsVars, halCalls,
                   ioProcs, outSamples, ioCalls, g_mixers, rmVars, lastOp, evVars>>

\* scanForDevices resolves: without a device the call is over; an existing connection
\* is disconnected and dropped and the call waits 100 ms; otherwise it connects
ScanReturns(c, found, opens) ==
    /\ callers[c] = "scanning"
    /\ IF ~found
       THEN /\ callers' = [callers EXCEPT ![c] = IF c = "initial" THEN "done" ELSE "idle"]
            /\ UNCHANGED <<connection, connections>>
       ELSE IF connection # NoConnection
       THEN /\ connections' = [connections EXCEPT ![connection] = disconnect(@)]
            /\ connection' = NoConnection
            /\ callers' = [callers EXCEPT ![c] = "waiting"]
       ELSE ConnectNew(c, opens)
    /\ UNCHANGED <<lbVars, osDevices, osDefaultOutput, osRate, plugVars, rsVars, halCalls,
                   ioProcs, outSamples, ioCalls, g_mixers, rmVars, lastOp, evVars>>

\* the 100 ms timer of connectToDevice resolves
WaitReturns(c, opens) ==
    /\ callers[c] = "waiting"
    /\ ConnectNew(c, opens)
    /\ UNCHANGED <<lbVars, osDevices, osDefaultOutput, osRate, plugVars, rsVars, halCalls,
                   ioProcs, outSamples, ioCalls, g_mixers, rmVars, lastOp, evVars>>

\* the HID handle of a connection reports an error: 'error' is emitted and the
\* connection disconnects itself
DeviceError(id) ==
    /\ id \in DOMAIN connections
    /\ connections[id].device
    /\ connections' = [connections EXCEPT ![id] = disconnect(@)]
    /\ lastOp' = OpRecord("deviceError", <<id>>, TRUE)
    /\ UNCHANGED <<connection, callers>>
    /\ UNCHANGED <<lbVars, osDevices, osDefaultOutput, osRate, plugVars, rsVars, halCalls,
                   ioProcs, outSamples, ioCalls, g_mixers, rmVars, evVars>>

\* the HID handle of a connection delivers a packet: handleData, and the 'event'
\* listener of index.ts with it
HandleData(id, data) ==
    /\ js.pc = "idle"
    /\ id \in DOMAIN connections
    /\ connections[id].device
    /\ \E event \in {parseInputPacket(data)} :
        IF event.type = "none"
        THEN UNCHANGED <<connections, config, g_mixers, saveTimeout, timers, lastOp>>
        ELSE /\ connections' = [connections EXCEPT ![id] = handleData(@, event)]
             /\ \E r \in {IF event.type = "knob-change"
                           THEN handleHardwareChange(config, g_mixers, mixerHandles,
                                                     event.index, event.value)
                           ELSE IF event.type = "state-response"
                           THEN stateResponseFrom(config, g_mixers, mixerHandles,
                                                  event.analogValues, 0, FALSE)
                           ELSE [config |-> config, mixers |-> g_mixers, saved |-> FALSE]} :
                    /\ config' = r.config
                    /\ g_mixers' = r.mixers
                    /\ \E t \in {saveAfter(r.saved, saveTimeout, timers, now)} :
                        /\ saveTimeout' = t.saveTimeout
                        /\ timers' = t.timers
             /\ lastOp' = OpRecord("handleData", data, TRUE)
    /\ UNCHANGED <<connection, callers>>
    /\ UNCHANGED <<lbVars, osDevices, osDefaultOutput, osRate, plugVars, rsVars, halCalls,
                   ioProcs, outSamples, ioCalls, mixerHandles, isInitialized, js, now, disk>>

\* a full state response: the code, 9 analog values and 5 button bytes
StateResponsePacket ==
    <<INPUT_CODE_STATE_RESPONSE>> \o [i \in 1 .. ANALOG_COUNT |-> 64]
        \o [i \in 1 .. BUTTON_COUNT |-> 1]

\* the packets the panel sends: changes of the first and the last control, changes
\* with the index one past the last control, a packet that is too short, an unknown
\* code, and a state response in full and cut short
PacketInputs ==
    {<<INPUT_CODE_KNOB_CHANGE, 0, 128>>,
     <<INPUT_CODE_KNOB_CHANGE, ANALOG_COUNT - 1, 255>>,
     <<INPUT_CODE_KNOB_CHANGE, ANALOG_COUNT, 128>>,
     <<INPUT_CODE_BUTTON_CHANGE, 0, 1>>,
     <<INPUT_CODE_BUTTON_CHANGE, BUTTON_COUNT, 1>>,
     <<INPUT_CODE_KNOB_CHANGE, 0>>,
     <<7, 0, 0>>,
     StateResponsePacket,
     <<INPUT_CODE_STATE_RESPONSE, 1, 1>>}

\* the main process scanning for the panel and connecting to it
InitConnect ==
    /\ LoopbackParked
    /\ osDevices = DeviceIds
    /\ osDefaultOutput = 4
    /\ osRate = [d \in DeviceIds |-> DefaultRate]
    /\ RoutingLoaded(NoFile)

NextConnect ==
    \/ \E c \in Callers : ConnectToDevice(c)
    \/ \E c \in Callers, found \in BOOLEAN, opens \in BOOLEAN : ScanReturns(c, found, opens)
    \/ \E c \in Callers, opens \in BOOLEAN : WaitReturns(c, opens)
    \/ \E id \in 1 .. MaxConnections : DeviceError(id)

SpecConnect == InitConnect /\ [][NextConnect]_vars

\* the panel connected by the initial scan, sending packets
InitPackets ==
    /\ LoopbackInit
    /\ ioRunning = FALSE
    /\ trackHistory = FALSE
    /\ PluginLoaded
    /\ rsMixer = NewMixer("Voice Chat")
    /\ rsStats = NoStats
    /\ ConverterIdle
    /\ halCalls = <<>>
    /\ osDevices = DeviceIds
    /\ osDefaultOutput = 4
    /\ osRate = [d \in DeviceIds |-> DefaultRate]
    /\ RoutingLoaded(NoFile)
    /\ connection = 1
    /\ connections = <<connect(NewConnection, TRUE)>>
    /\ callers = [c \in Callers |-> IF c = "initial" THEN "done" ELSE "idle"]

NextPackets ==
    \/ Initialize(NoFaults, NoFaults)
    \/ \E id \in 1 .. MaxConnections, data \in PacketInputs : HandleData(id, data)
    \/ \E id \in 1 .. MaxConnections : DeviceError(id)

SpecPackets == InitPackets /\ [][NextPackets]_vars

\* the application quits through cleanup() and is launched again: the constructor of
\* the new AudioRoutingManager loads the configuration file
Relaunch ==
    /\ js.pc = "idle"
    /\ ~isInitialized
    /\ lastOp.op = "shutdown"
    /\ config' = loadConfig(disk)
    /\ saveTimeout' = Null
    /\ timers' = {}
    /\ lastOp' = OpRecord("relaunch", <<>>, TRUE)
    /\ UNCHANGED <<osVars, ioProcs, g_mixers, mixerHandles, isInitialized, js, lbVars,
                   outSamples, ioCalls, now, disk>>

\* the routing manager under membership changes, shutdown and
\* relaunch; the save timer does not come due, and shutdown saves
InitMembership ==
    /\ LoopbackParked
    /\ osDevices = DeviceIds
    /\ osDefaultOutput = 4
    /\ osRate = [d \in DeviceIds |-> DefaultRate]
    /\ \E f \in {NoFile, FileWithOverride} : RoutingLoaded(f)

NextMembership ==
    \/ Initialize(NoFaults, NoFaults)
    \/ \E b \in MixIds, c \in ChannelIds, e \in BOOLEAN : SetChannelEnabledInMix(b, c, e)
    \/ Shutdown
    \/ Relaunch

SpecMembership == InitMembership /\ [][NextMembership]_vars

\* the renderer's calls with ids that exist and ids that do not
InitIds ==
    /\ LoopbackParked
    /\ osDevices = DeviceIds
    /\ osDefaultOutput = 4
    /\ osRate = [d \in DeviceIds |-> DefaultRate]
    /\ RoutingLoaded(NoFile)

NextIds ==
    \/ Initialize(NoFaults, NoFaults)
    \/ \E c \in ChannelArgs : SetChannelVolume(c, 0)
    \/ \E c \in ChannelArgs : SetChannelMuted(c, TRUE)
    \/ \E c \in ChannelArgs : SetChannelLabel(c, "Music")
    \/ \E b \in BusArgs, c \in ChannelArgs : SetChannelEnabledInMix(b, c, FALSE)
    \/ \E b \in BusArgs : SetMixOutputBegin(b, 5)
    \/ SetMixOutputStop
    \/ SetMixOutputSetOutput
    \/ SetMixOutputStart(NoFaults)
    \/ SetMixOutputReturn
    \/ SaveTimerFires
    \/ Tick

SpecIds == InitIds /\ [][NextIds]_vars

\* the device's events reaching the routing manager
InitEvents ==
    /\ LoopbackParked
    /\ osDevices = DeviceIds
    /\ osDefaultOutput = 4
    /\ osRate = [d \in DeviceIds |-> DefaultRate]
    /\ \E f \in SaveFiles : RoutingLoaded(f)

NextEvents ==
    \/ Initialize(NoFaults, NoFaults)
    \/ \E x \in {0, 3}, v \in {0, 128} : HandleHardwareChange(x, v)
    \/ \E x \in {0, 1}, pressed \in BOOLEAN : ButtonChangeEvent(x, pressed)
    \/ \E v \in {0, 128} : StateResponseEvent(<<v, 64>>)
    \/ SetChannelMuted("k2", TRUE)
    \/ SetChannelEnabledInMix("voicechat", "k2", TRUE)
    \/ SaveTimerFires
    \/ Tick

SpecEvents == InitEvents /\ [][NextEvents]_vars

\* ------------------------------------------------------------------------
\* Claims on the LoopbackBuffer
\* ------------------------------------------------------------------------
IsPrefix(s, t) == Len(s) <= Len(t) /\ \A i \in 1 .. Len(s) : s[i] = t[i]

\* C1: with one writer and one reader, under every interleaving, the real
\* bytes the reads returned are a prefix of the bytes the writes accepted
\* (same order, none twice), and a write of n bytes that found s < n bytes
\* free accepted exactly its first s bytes.
C1_PrefixAndTruncation ==
    /\ IsPrefix(delivered, accepted)
    /\ \A i \in 1 .. Len(accepted) : \A j \in 1 .. Len(accepted) :
           i < j => accepted[i] < accepted[j]
    /\ lastWrite.adv = Min(lastWrite.n, lastWrite.space)

\* C1 witness: a write was cut short by a full ring and the reader has
\* drained everything accepted, the bytes before and after the cut included
C1_Witness ==
    /\ lastWrite.adv > 0
    /\ lastWrite.adv < lastWrite.n
    /\ Len(delivered) >= kBufferSize
    /\ delivered = accepted

\* C10: when OnStartIO or OnStopIO is about to return, both positions and
\* the underrun counter are 0 and every byte of the ring is zero, and no
\* read begun after a handler returned gets a byte offered before it.
C10_ClearedAfterHandler ==
    /\ ctl.pc = "done" =>
           /\ writePos_ = 0
           /\ readPos_ = 0
           /\ underrunCount_ = 0
           /\ buffer_ = ZeroBuffer
    /\ ~staleRead

\* C11: with one writer and one reader and no clear(), under every interleaving
\* of the steps of write and read, used = writePos_ - readPos_ (unsigned) is at
\* most the capacity: the reader never passes the writer and the writer never
\* laps the reader.
C11_UsedWithinCapacity ==
    /\ USub(writePos_, readPos_) <= kBufferSize
    /\ readPos_ <= writePos_

\* C11 witness: the ring is full after it has wrapped, while a read that loaded
\* its positions earlier is still in flight
C11_Witness ==
    /\ USub(writePos_, readPos_) = kBufferSize
    /\ readPos_ > 0
    /\ writePos_ > kBufferSize
    /\ rd.pc = "fill"

\* a step in which read() returns
ReadReturns == rd.pc = "fill" /\ rd'.pc = "idle"

\* a step in which clear() stores 0 to underrunCount_
ClearStoresUnderrun == ctl.pc = "clearUnderrun" /\ ctl'.pc = "memset"

\* C12 (as stated): over any sequence of write, read and clear the underrun
\* counter never decreases; a read(n) with n > 0 that delivers 0 real bytes adds
\* exactly one to it and every other read leaves it unchanged.
C12_UnderrunsNeverDecrease ==
    [][/\ underrunCount_' >= underrunCount_
       /\ ReadReturns =>
              underrunCount_' =
                  underrunCount_ + (IF rd.n > 0 /\ rd.toRead = 0 THEN 1 ELSE 0)]_vars

\* C12 (amended): the underrun counter changes in two kinds of steps only.  A
\* read(n) that returns adds exactly one when n > 0 and it delivered 0 real
\* bytes, and nothing otherwise; clear() (OnStartIO, OnStopIO) stores 0.  Write
\* never changes it, so between two clears it never decreases.
C12_UnderrunsCountedUntilClear ==
    [][/\ ReadReturns =>
              underrunCount_' =
                  underrunCount_ + (IF rd.n > 0 /\ rd.toRead = 0 THEN 1 ELSE 0)
       /\ ClearStoresUnderrun => underrunCount_' = 0
       /\ ~ReadReturns /\ ~ClearStoresUnderrun => underrunCount_' = underrunCount_]_vars

\* C12 witness: an underrun has been counted, a read of an empty ring is about to
\* count another, and a clear() is about to reset the counter
C12_Witness ==
    /\ underrunCount_ >= 1
    /\ rd.pc = "fill" /\ rd.n > 0 /\ rd.toRead = 0
    /\ ctl.pc = "clearUnderrun"

GainHeld(h, deviceName) ==
    IF InputIndex(MixerAt(h), deviceName) = 0 THEN Null
    ELSE MixerAt(h).inputs_[InputIndex(MixerAt(h), deviceName)].gain

\* C3: a step handleHardwareChange(idx, raw) with raw in 0..255 and idx mapped to the
\* volume of channel c leaves c's configured volume at raw/255, every other channel's
\* volume and every mute flag as they were, and in every mixer that has c as an input
\* the gain 0 if c is muted and raw/255 otherwise.
C3_KnobSetsVolumeAndGain ==
    [][(/\ lastOp'.op = "handleHardwareChange"
        /\ lastOp'.args[1] \in DOMAIN config.hardwareMapping
        /\ config.hardwareMapping[lastOp'.args[1]].type = "channel-volume")
       => LET raw == lastOp'.args[2]
              c == ChannelIndex(config, config.hardwareMapping[lastOp'.args[1]].targetId)
          IN  /\ c # 0
              /\ config'.inputChannels[c].volume = raw
              /\ raw >= 0 /\ raw <= GainDenom
              /\ \A k \in DOMAIN config.inputChannels :
                    /\ config'.inputChannels[k].muted = config.inputChannels[k].muted
                    /\ k # c => config'.inputChannels[k].volume = config.inputChannels[k].volume
              /\ \A h \in 0 .. (Len(g_mixers') - 1) :
                    LET i == InputIndex(g_mixers'[h + 1], config.inputChannels[c].deviceName)
                    IN  i # 0 => g_mixers'[h + 1].inputs_[i].gain =
                                    (IF config'.inputChannels[c].muted THEN 0 ELSE raw)]_vars

\* C3 witness: the knob of k1 was turned to 128 while both buses hold k1 and k1 is not
\* muted: the configuration and both mixers hold 128/255
C3_Witness ==
    /\ lastOp.op = "handleHardwareChange"
    /\ lastOp.args = <<0, 128>>
    /\ Len(g_mixers) = 2
    /\ config.inputChannels[1].volume = 128
    /\ ~config.inputChannels[1].muted
    /\ GainHeld(0, "PCPanel K1") = 128
    /\ GainHeld(1, "PCPanel K1") = 128

\* C4: after initialize, for every bus mixer and every input channel in it, the gain
\* the mixer holds is 0 if the channel is muted and the channel's configured volume
\* otherwise, whatever configuration the manager started from.
C4_GainIsEffectiveVolume ==
    isInitialized =>
        \A b \in MixIds : \A c \in DOMAIN config.inputChannels :
            (mixerHandles[b] # NoHandle
                /\ GainHeld(mixerHandles[b], config.inputChannels[c].deviceName) # Null)
            => GainHeld(mixerHandles[b], config.inputChannels[c].deviceName)
                    = EffectiveVolume(config.inputChannels[c])

\* the device setMixOutput switches the bus to: the one asked for, or the default output
SwitchTarget(deviceId) == IF deviceId # Null THEN deviceId ELSE osDefaultOutput

\* the output IOProcs registered for the mixer of a bus
OutputProcsOf(mixId) ==
    {p \in ioProcs : p.mixer = mixerHandles[mixId] /\ p.kind = "output"}

\* C5 (as stated): setMixOutput(bus, Y) on a bus running on X, Y another device: once
\* the call has returned no output IOProc of the bus is registered on X, and until it
\* returns none is registered on Y.
C5_SilentUntilReturn ==
    /\ (/\ js.pc = "idle"
        /\ lastOp.op = "setMixOutput" /\ lastOp.attempted
        /\ lastOp.from # kAudioObjectUnknown
        /\ SwitchTarget(lastOp.args[2]) \notin {kAudioObjectUnknown, lastOp.from}
        /\ mixerHandles[lastOp.args[1]] # NoHandle)
       => OutputProc(mixerHandles[lastOp.args[1]], lastOp.from) \notin ioProcs
    /\ (/\ js.pc # "idle"
        /\ js.from # kAudioObjectUnknown
        /\ SwitchTarget(js.deviceId) \notin {kAudioObjectUnknown, js.from})
       => OutputProc(mixerHandles[js.mixId], SwitchTarget(js.deviceId)) \notin ioProcs

\* C5 (amended): setMixOutput(bus, Y) on a bus running on X, Y another device: from
\* mixerStop on, and once the call has returned, no output IOProc of the bus is
\* registered on X; between mixerStop and mixerStart no IOProc of the bus is
\* registered at all; after mixerStart, still inside the call, the output IOProc is
\* registered on Y exactly if the restart succeeded; and the bus never has output
\* IOProcs on two devices.
C5_SwitchInsideCall ==
    /\ (/\ js.pc = "idle"
        /\ lastOp.op = "setMixOutput" /\ lastOp.attempted
        /\ lastOp.from # kAudioObjectUnknown
        /\ SwitchTarget(lastOp.args[2]) \notin {kAudioObjectUnknown, lastOp.from}
        /\ mixerHandles[lastOp.args[1]] # NoHandle)
       => OutputProc(mixerHandles[lastOp.args[1]], lastOp.from) \notin ioProcs
    /\ (/\ js.pc # "idle"
        /\ js.from # kAudioObjectUnknown
        /\ SwitchTarget(js.deviceId) \notin {kAudioObjectUnknown, js.from})
       => /\ js.pc \in {"mixerSetOutput", "mixerStart", "return"}
                => OutputProc(mixerHandles[js.mixId], js.from) \notin ioProcs
          /\ js.pc \in {"mixerSetOutput", "mixerStart"}
                => \A p \in ioProcs : p.mixer # mixerHandles[js.mixId]
          /\ js.pc = "return"
                => OutputProcsOf(js.mixId) =
                        IF js.started
                        THEN {OutputProc(mixerHandles[js.mixId], SwitchTarget(js.deviceId))}
                        ELSE {}
    /\ \A b \in MixIds : Cardinality(OutputProcsOf(b)) <= 1

\* C5 witness: the personal bus ran on device 4, was switched to device 5, the call
\* has returned and the output IOProc is on device 5
C5_Witness ==
    /\ lastOp.op = "setMixOutput"
    /\ lastOp.args = <<"personal", 5>>
    /\ lastOp.from = 4
    /\ lastOp.started
    /\ OutputProcsOf("personal") = {OutputProc(mixerHandles["personal"], 5)}

\* C6: when the mixer of the bus did not restart in setMixOutput, the bus is left
\* stopped and the operation does not report success.
C6_RestartFailureSurfaced ==
    (lastOp.op = "setMixOutput" /\ lastOp.attempted /\ ~lastOp.started)
    => /\ mixerHandles[lastOp.args[1]] # NoHandle
            => ~MixerAt(mixerHandles[lastOp.args[1]]).running_
       /\ ~lastOp.ok

\* C7: between calls, getState reports isRunning for a bus exactly when the native
\* mixer of the bus is running.
C7_IsRunningMeansRunning ==
    js.pc = "idle" =>
        \A b \in MixIds :
            IsRunningReported(b) <=>
                (mixerHandles[b] # NoHandle /\ MixerAt(mixerHandles[b]).running_)

\* ------------------------------------------------------------------------
\* Claims on the render callback
\* ------------------------------------------------------------------------
\* the sum of f over the set S
RECURSIVE SumOf(_, _)
SumOf(f, S) ==
    IF S = {} THEN 0
    ELSE LET k == CHOOSE x \in S : TRUE IN f[k] + SumOf(f, S \ {k})

\* clamp(v, -full, +full)
ClampTo(v, full) == Max(0 - full, Min(full, v))

\* sample i that channel k of mixer m supplies to a render of n frames: what was
\* fetched from its ring for this cycle, 0 where the ring could not supply it
SuppliedSample(m, k, n, i) ==
    LET x == FetchChannel(m.inputs_[k], m.outputSampleRate_, n).samples
    IN  IF i <= Len(x) THEN x[i] ELSE 0

\* the channels of mixer m that are enabled and have a ring
MixedChannels(m) ==
    {k \in DOMAIN m.inputs_ : m.inputs_[k].enabled /\ m.inputs_[k].ringBuffer.present}

\* the bus whose mixer has handle h
BusOf(h) == CHOOSE b \in MixIds : mixerHandles[b] = h

\* the gain the configuration gives a device in a bus, over GainDenom * GainDenom: the
\* channel gain, times the bus's gainOverride for the channel when one is set
ConfiguredGain(mixId, deviceName) ==
    LET c == FindIndex({i \in DOMAIN config.inputChannels :
                            config.inputChannels[i].deviceName = deviceName})
        bus == config.mixBuses[BusIndex(config, mixId)]
        x == IF c = 0 THEN 0 ELSE MemberIndex(bus, config.inputChannels[c].id)
    IN  IF c = 0 THEN 0
        ELSE EffectiveVolume(config.inputChannels[c])
                * (IF x # 0 /\ bus.channels[x].gainOverride # Null
                   THEN bus.channels[x].gainOverride ELSE GainDenom)

\* whether clamp(a * t / GainDenom, -full, +full) is v, for a >= 0; the floor and the
\* remainder of a * t / GainDenom are computed without the product a * t
ClampedQuotientIs(v, a, t, full) ==
    LET floor == a * (t \div GainDenom) + (a * (t % GainDenom)) \div GainDenom
        rem == (a * (t % GainDenom)) % GainDenom
    IN  IF floor >= full THEN v = full
        ELSE IF floor < 0 - full THEN v = 0 - full
        ELSE rem = 0 /\ v = floor

HeardRecently(c) ==
    \E b \in MixIds :
        /\ mixerHandles[b] # NoHandle
        /\ getInputActivity(MixerAt(mixerHandles[b]), config.inputChannels[c].deviceName)

\* C13: the isActive flag getState / getChannelActivityInfo reports for a channel is
\* true exactly when an input callback of the channel saw a sample with |x| > 0.001
\* less than 500 ms ago.
C13_ActiveIffHeardRecently ==
    \A c \in DOMAIN config.inputChannels : IsActiveReported(c) <=> HeardRecently(c)

\* ------------------------------------------------------------------------
\* Claims on the debounced save
\* ------------------------------------------------------------------------
MutatingOps == {"setChannelVolume", "setChannelMuted", "setChannelLabel",
                "setChannelEnabledInMix", "handleHardwareChange", "setMixOutput"}

\* a step in which a mutating operation on existing ids updates the configuration and
\* reaches scheduleSave (for setMixOutput: the step that enters the call)
MutatingStep ==
    /\ now' = now
    /\ js.pc = "idle"
    /\ js'.pc = "mixerStop" \/ lastOp'.op \in MutatingOps

\* a step in which the callback of a save timer runs
TimerStep == now' = now /\ js.pc = "idle" /\ js' = js /\ lastOp'.op = "saveTimer"

\* a step in which shutdown runs
ShutdownStep == now' = now /\ js.pc = "idle" /\ js' = js /\ lastOp'.op = "shutdown"

\* C14: every mutating control operation leaves exactly one save timer pending, due
\* one second later; a timer writes only when no mutation arrived during the second
\* before it, so mutations less than a second apart share one write, and the write
\* stores the configuration as it is then; nothing else writes but shutdown.
C14_DebouncedSave ==
    [][ /\ MutatingStep =>
            /\ saveTimeout' = now + SaveDelay
            /\ timers' = {now + SaveDelay}
            /\ disk' = disk
        /\ TimerStep =>
            /\ saveTimeout # Null
            /\ saveTimeout <= now
            /\ timers = {saveTimeout}
            /\ config' = config
            /\ disk' = saveConfig(config)
            /\ saveTimeout' = Null
            /\ timers' = {}
        /\ disk' # disk => TimerStep \/ ShutdownStep
        /\ Cardinality(timers') <= 1 ]_vars

\* a timer has written a configuration that several mutations shaped
C14_Witness ==
    /\ lastOp.op = "saveTimer"
    /\ disk = saveConfig(config)
    /\ config.inputChannels[1].volume = 0
    /\ config.inputChannels[1].muted
    /\ config.inputChannels[1].channelName = "Music"
    /\ config.mixBuses[BusIndex(config, "personal")].outputDeviceId = 5

\* C15: a shutdown that finds a save pending writes the current configuration and
\* leaves no timer pending, whatever preceded it.
C15_ShutdownFlushes ==
    [][ ShutdownStep /\ saveTimeout # Null =>
            /\ disk' = saveConfig(config)
            /\ saveTimeout' = Null
            /\ timers' = {} ]_vars

\* ------------------------------------------------------------------------
\* Claims on the configuration file
\* ------------------------------------------------------------------------
\* C16: for every configuration the routing manager holds, loadConfig of the file that
\* saveConfig writes for it gives that configuration back, equal in inputChannels,
\* mixBuses and hardwareMapping.
C16_LoadAfterSave == loadConfig(saveConfig(config)) = config

\* a configuration with a silent, muted, relabelled channel and a mapping taken from a
\* file has been written, and the file holds the mapping under string keys
C16_Witness ==
    /\ disk = saveConfig(config)
    /\ DOMAIN disk.hardwareMapping = {"0", "3"}
    /\ DOMAIN config.hardwareMapping = {0, 3}
    /\ config.inputChannels[1].volume = 0
    /\ config.inputChannels[1].muted
    /\ config.inputChannels[1].channelName = "Music"
    /\ config.mixBuses[BusIndex(config, "personal")].outputDeviceId = 5

\* C17: in every configuration the routing manager holds, channel ids are unique, the
\* hardware index of every channel has a mapping (an object has one entry per key,
\* so exactly one), and the targetId of every mapping is the id of a channel.
C17_ConfigWellFormed ==
    /\ \A i, j \in DOMAIN config.inputChannels :
            config.inputChannels[i].id = config.inputChannels[j].id => i = j
    /\ \A c \in DOMAIN config.inputChannels :
            config.inputChannels[c].hardwareIndex \in DOMAIN config.hardwareMapping
    /\ \A x \in DOMAIN config.hardwareMapping :
            ChannelIndex(config, config.hardwareMapping[x].targetId) # 0

\* ------------------------------------------------------------------------
\* Claims on the control operations and the hardware events
\* ------------------------------------------------------------------------
\* a step in which a control operation runs that names a channel or a bus the
\* configuration does not have
UnknownIdStep ==
    /\ now' = now
    /\ js.pc = "idle"
    /\ js' = js
    /\ \/ /\ lastOp'.op \in {"setChannelVolume", "setChannelMuted", "setChannelLabel"}
           /\ ~lastOp'.args[1]
       \/ /\ lastOp'.op = "setChannelEnabledInMix"
           /\ ~(lastOp'.args[1] /\ lastOp'.args[2])
       \/ /\ lastOp'.op = "setMixOutput"
           /\ BusIndex(config, lastOp'.args[1]) = 0

\* C18: a control operation that names an unknown channel id or bus id returns a
\* failure to its caller and changes neither the configuration, nor a mixer, nor the
\* pending save.
C18_UnknownIdRejected ==
    [][ UnknownIdStep =>
            /\ ~lastOp'.ok
            /\ config' = config
            /\ g_mixers' = g_mixers
            /\ ioProcs' = ioProcs
            /\ saveTimeout' = saveTimeout
            /\ timers' = timers ]_vars

\* a step in which the event of a button arrives
ButtonStep == now' = now /\ js.pc = "idle" /\ js' = js /\ lastOp'.op = "buttonChange"

\* a step in which the event of a knob or slider, or a state response, arrives
KnobStep ==
    /\ now' = now
    /\ js.pc = "idle"
    /\ js' = js
    /\ lastOp'.op \in {"handleHardwareChange", "stateResponse"}

\* C19: the press of a button whose index is mapped to channel-mute flips the mute
\* flag of the target channel once and leaves, in every mixer that has the channel as
\* an input, the gain 0 if it is now muted and its volume otherwise; the release of a
\* button and the event of a knob or slider change no mute flag.
C19_ButtonTogglesMute ==
    [][ /\ (/\ ButtonStep
            /\ lastOp'.args[2]
            /\ lastOp'.args[1] \in DOMAIN config.hardwareMapping
            /\ config.hardwareMapping[lastOp'.args[1]].type = "channel-mute"
            /\ ChannelIndex(config, config.hardwareMapping[lastOp'.args[1]].targetId) # 0)
           => LET c == ChannelIndex(config,
                                   config.hardwareMapping[lastOp'.args[1]].targetId)
              IN  /\ config'.inputChannels[c].muted = ~config.inputChannels[c].muted
                  /\ \A h \in 0 .. (Len(g_mixers') - 1) :
                        InputIndex(g_mixers'[h + 1], config.inputChannels[c].deviceName) # 0
                        => g_mixers'[h + 1].inputs_[
                               InputIndex(g_mixers'[h + 1],
                                          config.inputChannels[c].deviceName)].gain
                           = EffectiveVolume(config'.inputChannels[c])
        /\ ((ButtonStep /\ ~lastOp'.args[2]) \/ KnobStep)
           => \A k \in DOMAIN config.inputChannels :
                config'.inputChannels[k].muted = config.inputChannels[k].muted ]_vars

\* the Voice Chat endpoint is among the devices listAudioDevices returns
VoiceChatEndpointPresent ==
    \E i \in DOMAIN listAudioDevices : listAudioDevices[i].name = "PCPanel Voice Chat"

\* the voicechat bus of the configuration has a member with enabled = true
VoiceChatHasEnabledMember ==
    /\ BusIndex(config, "voicechat") # 0
    /\ \E k \in DOMAIN config.mixBuses[BusIndex(config, "voicechat")].channels :
            config.mixBuses[BusIndex(config, "voicechat")].channels[k].enabled

\* C20: an initialize that finds the Voice Chat endpoint absent, or the voicechat bus
\* without a member with enabled = true, creates and starts no mixer for that bus and
\* leaves the configuration of the bus as it was.
C20_VoiceChatNotStarted ==
    [][ (/\ now' = now
         /\ lastOp'.op = "initialize"
         /\ ~isInitialized
         /\ isInitialized'
         /\ ~VoiceChatEndpointPresent \/ ~VoiceChatHasEnabledMember)
        => /\ mixerHandles'["voicechat"] = NoHandle
           /\ \A h \in 0 .. (Len(g_mixers') - 1) : g_mixers'[h + 1].name_ # "Voice Chat Mix"
           /\ config'.mixBuses = config.mixBuses ]_vars

\* ------------------------------------------------------------------------
\* Claims on the life cycle of the buses
\* ------------------------------------------------------------------------
\* the members of the voicechat bus of a configuration that have enabled = true
EnabledVoiceChatMembers(cfg) ==
    IF BusIndex(cfg, "voicechat") = 0 THEN {}
    ELSE {cfg.mixBuses[BusIndex(cfg, "voicechat")].channels[k].channelId :
            k \in {x \in DOMAIN cfg.mixBuses[BusIndex(cfg, "voicechat")].channels :
                        cfg.mixBuses[BusIndex(cfg, "voicechat")].channels[x].enabled}}

\* a step in which setChannelEnabledInMix makes a channel an enabled member of the
\* voicechat bus
EnableInVoiceChatStep ==
    /\ now' = now
    /\ js.pc = "idle"
    /\ js' = js
    /\ lastOp'.op = "setChannelEnabledInMix"
    /\ EnabledVoiceChatMembers(config') # EnabledVoiceChatMembers(config)

\* C21: when initialize did not start the voicechat bus because it had no enabled
\* member, a setChannelEnabledInMix('voicechat', c, true) for a channel c, with the
\* Voice Chat endpoint present, leaves the voicechat mixer created and running with
\* c as an enabled input.
C21_VoiceChatCreatedOnDemand ==
    [][ (/\ EnableInVoiceChatStep
         /\ isInitialized
         /\ mixerHandles["voicechat"] = NoHandle
         /\ EnabledVoiceChatMembers(config) = {}
         /\ VoiceChatEndpointPresent)
        => /\ mixerHandles'["voicechat"] # NoHandle
           /\ \A c \in EnabledVoiceChatMembers(config') :
                LET m == g_mixers'[mixerHandles'["voicechat"] + 1]
                    i == InputIndex(m, config.inputChannels[ChannelIndex(config, c)].deviceName)
                IN  m.running_ /\ i # 0 /\ m.inputs_[i].enabled ]_vars

\* a step in which initialize runs
InitializeStep == now' = now /\ js.pc = "idle" /\ js' = js /\ lastOp'.op = "initialize"

\* C22: an initialize on an initialized manager creates no mixer and changes nothing,
\* and a shutdown on a manager that is not initialized stops nothing and writes
\* nothing.
C22_InitializeShutdownIdempotent ==
    [][ /\ (InitializeStep /\ isInitialized)
            => UNCHANGED <<g_mixers, mixerHandles, ioProcs, config, isInitialized,
                           saveTimeout, timers, disk>>
        /\ (ShutdownStep /\ ~isInitialized)
            => UNCHANGED <<g_mixers, mixerHandles, ioProcs, config, isInitialized,
                           saveTimeout, timers, disk>> ]_vars

\* a second initialize has run on a manager with its personal mixer and a save pending
C22_Witness ==
    /\ lastOp.op = "initialize"
    /\ lastOp.wasRunning
    /\ isInitialized
    /\ Len(g_mixers) = 1
    /\ saveTimeout # Null

\* ------------------------------------------------------------------------
\* Claims on the plug-in entry point and on the endpoints' sample rate
\* ------------------------------------------------------------------------
\* a step in which PCPanelDriverEntry is called
EntryStep == hal'.entryCalls = hal.entryCalls + 1

\* C23: PCPanelDriverEntry returns null and constructs nothing when the type UUID
\* does not match; the first matching call constructs the driver and its devices,
\* and every later matching call returns the same reference and constructs nothing,
\* so that one driver exists at most, whatever the order of the calls.
C23_DriverConstructedOnce ==
    [][ EntryStep =>
          /\ hal'.drivers <= 1
          /\ ~hal'.matched =>
                /\ hal'.result = NullRef
                /\ UNCHANGED <<g_driver, endpoint>>
                /\ hal'.drivers = hal.drivers
                /\ hal'.devices = hal.devices
          /\ hal'.matched =>
                /\ hal'.result # NullRef
                /\ hal'.result = GetReference(g_driver')
                /\ IF hal.drivers = 0
                   THEN hal'.drivers = 1 /\ hal'.devices = kNumDevices + 1
                   ELSE /\ UNCHANGED <<g_driver, endpoint>>
                        /\ hal'.drivers = hal.drivers
                        /\ hal'.devices = hal.devices ]_vars

\* a matching call, a mismatching call and another matching call have been made,
\* and the last one returned the reference of the only driver
C23_Witness ==
    /\ hal.entryCalls = MaxEntryCalls
    /\ hal.matched
    /\ hal.drivers = 1
    /\ hal.devices = kNumDevices + 1
    /\ hal.result = GetReference(g_driver)
    /\ endpoint.rate # DefaultRate

\* C24: after a change of the nominal sample rate of an endpoint, either the device
\* and the physical format of every stream are at the new rate, or the device is
\* at its prior rate and an error status was returned; the format rate of a stream
\* never differs from the rate of its device.
C24_RatesInLockStep ==
    g_driver # NoDriver =>
        /\ \A s \in Streams : endpoint.format[s] = endpoint.rate
        /\ endpoint.status = "kAudioHardwareNoError" => endpoint.rate = endpoint.requested
        /\ endpoint.status = "error" => endpoint.rate = endpoint.prior

\* ------------------------------------------------------------------------
\* Claims on a LoopbackBuffer whose positions are more than the capacity apart
\* ------------------------------------------------------------------------
\* the unsigned distance of the positions is above the capacity
Stuck == USub(writePos_, readPos_) > kBufferSize

IssuedBytes == nextId - 1 - (IF wr.pc = "idle" THEN 0 ELSE wr.n)

\* C26: with write_pos - read_pos (unsigned) above the capacity, a read delivers no
\* real byte and leaves read_pos where it is; and once the writes made since then
\* total the capacity, the distance is the capacity or less again.
C26_RecoversAfterCapacityBytes ==
    [][ /\ (rd.pc = "loadRp" /\ rd'.pc # "loadRp" /\ USub(rd.wp, readPos_) > kBufferSize)
            => (rd'.toRead = 0 /\ rd'.pc = "fill" /\ readPos_' = readPos_)
        /\ (wr.pc # "idle" /\ wr'.pc = "idle" /\ rd.pc = "idle" /\ IssuedBytes' >= kBufferSize)
            => USub(writePos_', readPos_') <= kBufferSize ]_vars

\* ------------------------------------------------------------------------
\* Claims on the LoopbackBuffer of src/driver/src/Driver.cpp
\* ------------------------------------------------------------------------
\* C27: a write never overwrites unread bytes: it accepts no more than the free
\* space, so that write_pos - read_pos never exceeds the size of the ring and every
\* byte a read delivers is the byte written at that position of the stream.
C27_NoOverwriteOfUnread ==
    ctl.pc = "idle" =>
        /\ USub(writePos_, readPos_) <= kBufferSize
        /\ Len(delivered) <= Len(accepted)
        /\ \A k \in 1 .. Len(delivered) : delivered[k] = accepted[k]

\* ------------------------------------------------------------------------
\* Claims on the mixer's rings and on the sample rate conversion
\* ------------------------------------------------------------------------
\* C28: with every write and every read a whole number of 8-byte stereo frames,
\* the bytes a mixer ring holds and both of its positions are multiples of 8, also
\* after a write that the ring cut short.
C28_RingFrameAligned ==
    \A h \in DOMAIN g_mixers : \A k \in DOMAIN g_mixers[h].inputs_ :
        LET r == g_mixers[h].inputs_[k].ringBuffer IN
        r.present =>
            /\ RingUsed(r) % kBytesPerFrame = 0
            /\ r.writePos_ % kBytesPerFrame = 0
            /\ r.readPos_ % kBytesPerFrame = 0

\* C29: in a render cycle of a channel with a converter whose ring held the input
\* frames the callback asked for, the converter yields exactly as many frames as
\* the output buffer holds, from 44100 Hz to 48000 Hz and from 48000 Hz to 44100 Hz.
C29_ConvertedFramesEqualOutput ==
    rsStats.last.fed => rsStats.last.converted = rsStats.last.out

\* the channel at 48000 Hz has been fed and rendered into 44100 Hz cycle after
\* cycle, the last time for a buffer of MaxOutFrames frames
C29_Witness ==
    /\ rsMixer.running_
    /\ rsMixer.inputs_[1].inputSampleRate > rsMixer.outputSampleRate_
    /\ rsStats.cycles = MaxCycles
    /\ ~rsStats.starved
    /\ rsStats.last.fed
    /\ rsStats.last.out = MaxOutFrames
    /\ rsStats.last.converted = MaxOutFrames

\* the input frames the cycles took out of the ring beyond those the output frames
\* stand for, in units of 1 / (kBytesPerFrame * outputSampleRate_) of a frame
Drift ==
    rsStats.consumed * rsMixer.outputSampleRate_
        - rsStats.asked * rsMixer.inputs_[1].inputSampleRate * kBytesPerFrame

MaxDriftFrames == 2

\* C30: over any number of consecutive render cycles that found their input, the
\* input frames taken out of the ring differ from the output frames times
\* in_rate / out_rate by no more than a constant (the two frames of look-ahead).
C30_BoundedDrift ==
    (rsMixer.running_ /\ ~rsStats.starved) =>
        /\ Drift <= MaxDriftFrames * kBytesPerFrame * rsMixer.outputSampleRate_
        /\ 0 - Drift <= MaxDriftFrames * kBytesPerFrame * rsMixer.outputSampleRate_

\* C31: whatever the input length (zero included), the output limit and the ratio,
\* convert() reads only input frames below inputFrames, writes only output frames below
\* maxOutputFrames, returns no more frames than either allows, and leaves phase_ at
\* zero or above.
C31_ConvertStaysInBounds ==
    /\ \A i \in lastConvert.reads : 0 <= i /\ i < lastConvert.inputFrames
    /\ \A o \in lastConvert.writes : 0 <= o /\ o < lastConvert.maxOutputFrames
    /\ lastConvert.frames <= lastConvert.maxOutputFrames
    /\ lastConvert.frames = Cardinality(lastConvert.writes)
    /\ resampler.phase_ >= 0

\* a converting call that stopped at the output limit with input left over, after a
\* call that was given no input at all
C31_Witness ==
    /\ resampler.inputRate_ # resampler.outputRate_
    /\ lastConvert.calls >= 2
    /\ lastConvert.frames = lastConvert.maxOutputFrames
    /\ lastConvert.frames >= 1
    /\ (lastConvert.inputFrames - 1) \in lastConvert.reads
    /\ lastConvert.inputFrames > lastConvert.maxOutputFrames

\* the positions in halCalls of the calls of one kind on IOProcs of one kind
CallsAt(call, kind) ==
    {i \in DOMAIN halCalls : halCalls[i].call = call /\ halCalls[i].kind = kind}

\* the IOProcs halCalls leaves registered: created with success and not destroyed after
LeftRegistered ==
    {<<halCalls[i].kind, halCalls[i].device>> :
        i \in {j \in CallsAt("create", "input") \cup CallsAt("create", "output") :
                 /\ halCalls[j].ok
                 /\ ~\E k \in DOMAIN halCalls :
                        /\ k > j
                        /\ halCalls[k].call = "destroy"
                        /\ halCalls[k].kind = halCalls[j].kind
                        /\ halCalls[k].device = halCalls[j].device}}

\* C32: in a start() that succeeds every input IOProc that is started is started before
\* the output IOProc is; in a stop() the output IOProc is stopped and destroyed before
\* any input IOProc is stopped; and once stop() has returned no IOProc of the mixer is
\* registered.
C32_InputsBeforeOutput ==
    /\ (lastOp.op = "mixerStart" /\ lastOp.ok /\ lastOp.attempted)
        => /\ Cardinality(CallsAt("start", "output")) = 1
           /\ \A i \in CallsAt("start", "input"), o \in CallsAt("start", "output") : i < o
           /\ \A i \in CallsAt("create", "input"), o \in CallsAt("create", "output") : i < o
           /\ {InputProc(lastOp.args[1], x[2]) : x \in {y \in LeftRegistered : y[1] = "input"}}
                \cup {OutputProc(lastOp.args[1], x[2]) :
                            x \in {y \in LeftRegistered : y[1] = "output"}}
                = {p \in ioProcs : p.mixer = lastOp.args[1]}
    /\ lastOp.op = "mixerStop"
        => /\ \A o \in CallsAt("stop", "output") \cup CallsAt("destroy", "output"),
                 i \in CallsAt("stop", "input") \cup CallsAt("destroy", "input") : o < i
           /\ lastOp.wasRunning => Cardinality(CallsAt("destroy", "output")) = 1
           /\ LeftRegistered = {}
           /\ {p \in ioProcs : p.mixer = lastOp.args[1]} = {}

\* a stop() of a mixer that start() had brought up with both of its inputs
C32_Witness ==
    /\ lastOp.op = "mixerStop"
    /\ lastOp.wasRunning
    /\ Cardinality(CallsAt("stop", "input")) = 2
    /\ Cardinality(CallsAt("stop", "output")) = 1

\* the device names of the inputs of a mixer, in order
InputNamesOf(m) == [i \in DOMAIN m.inputs_ |-> m.inputs_[i].name]

\* C33: no step of the routing manager changes the list of inputs of a mixer that is
\* running: a membership change on a running mixer sets the enabled flag of an input
\* that exists, and inputs are added only to a mixer that has not been started.
C33_InputsFixedWhileRunning ==
    [][\A h \in 0 .. 1 :
            (ValidHandle(h) /\ MixerAt(h).running_ /\ h < Len(g_mixers'))
                => InputNamesOf(g_mixers'[h + 1]) = InputNamesOf(MixerAt(h))]_vars

\* a membership change has cleared the enabled flag of an input of the running
\* personal mixer, which still holds both of its inputs
C33_Witness ==
    /\ lastOp.op = "setChannelEnabledInMix"
    /\ mixerHandles["personal"] # NoHandle
    /\ MixerAt(mixerHandles["personal"]).running_
    /\ Len(MixerAt(mixerHandles["personal"]).inputs_) = 2
    /\ \E i \in 1 .. 2 : ~MixerAt(mixerHandles["personal"]).inputs_[i].enabled

\* what the tail of LoopbackBuffer::read does besides copying, for a request of bytes
\* of which toRead were found: the underrun branch calls os_log
ReadEffects(bytes, toRead) ==
    IF toRead < bytes /\ toRead = 0 THEN {"os_log"} ELSE {}

\* the calls that may block which the realtime thread inside OnReadClientInput is
\* about to make
RealTimeEffects ==
    IF rd.pc = "fill" THEN ReadEffects(rd.n, rd.toRead) ELSE {}

\* C34: no realtime callback takes a mutex, allocates memory or writes a log message;
\* for OnReadClientInput: the realtime thread never stands before a call to os_log.
C34_CallbacksDoNotBlock == RealTimeEffects = {}

\* the mixer holds the device as an input whose enabled flag is set
EnabledInput(m, deviceName) ==
    \E i \in DOMAIN m.inputs_ : m.inputs_[i].name = deviceName /\ m.inputs_[i].enabled

\* the bus of the configuration lists the channel as a member with enabled = true
ListedEnabled(cfg, mixId, channelId) ==
    \E b \in DOMAIN cfg.mixBuses :
        /\ cfg.mixBuses[b].id = mixId
        /\ \E k \in DOMAIN cfg.mixBuses[b].channels :
                /\ cfg.mixBuses[b].channels[k].channelId = channelId
                /\ cfg.mixBuses[b].channels[k].enabled

\* C35: once initialize has run, for every bus that has a mixer and every channel
\* whose virtual device is present, the channel is an enabled input of the mixer
\* exactly when the bus of the configuration lists it as a member with enabled = true.
C35_MixerMatchesConfig ==
    isInitialized =>
        \A mixId \in MixIds :
            mixerHandles[mixId] # NoHandle =>
                \A c \in DOMAIN config.inputChannels :
                    findDeviceByName(config.inputChannels[c].deviceName) # kAudioObjectUnknown
                        => (EnabledInput(MixerAt(mixerHandles[mixId]),
                                         config.inputChannels[c].deviceName)
                                <=> ListedEnabled(config, mixId, config.inputChannels[c].id))

\* the application is launched again after a shutdown that saved the configuration
RelaunchStep == lastOp.op = "shutdown" /\ lastOp.wasRunning /\ lastOp'.op = "relaunch"

\* the first initialize of the launched application, on the configuration as loaded
InitializeAfterRelaunchStep ==
    lastOp.op = "relaunch" /\ lastOp'.op = "initialize" /\ ~isInitialized /\ isInitialized'

\* C36: a membership change survives a restart: the configuration loaded at the next
\* launch lists a channel as enabled member of a bus exactly when the configuration
\* did at shutdown, and after the initialize that follows a channel whose device is
\* present is an enabled input of a bus's mixer exactly when it was so listed; a
\* channel disabled in the personal bus is a disabled input of the personal mixer.
C36_MembershipSurvivesRestart ==
    [][/\ RelaunchStep =>
            \A mixId \in MixIds, c \in ChannelIds :
                ListedEnabled(config', mixId, c) <=> ListedEnabled(config, mixId, c)
       /\ InitializeAfterRelaunchStep =>
            \A mixId \in MixIds :
                mixerHandles'[mixId] # NoHandle =>
                    \A c \in DOMAIN config.inputChannels :
                        findDeviceByName(config.inputChannels[c].deviceName)
                                # kAudioObjectUnknown
                            => (EnabledInput(g_mixers'[mixerHandles'[mixId] + 1],
                                             config.inputChannels[c].deviceName)
                                    <=> ListedEnabled(config, mixId,
                                                      config.inputChannels[c].id))]_vars

\* C37: a mixer that is running never has as its output device a device that is also
\* one of its inputs, whatever sink id setMixOutput was given and whatever the default
\* output was when the mixer started without a sink of its own.
C37_NoFeedbackLoop ==
    \A h \in 0 .. (Len(g_mixers) - 1) :
        MixerAt(h).running_ =>
            \A i \in DOMAIN MixerAt(h).inputs_ :
                MixerAt(h).inputs_[i].deviceId # MixerAt(h).outputDevice_

\* C38: when a channel of a running bus has been disabled and is enabled again, the
\* bus mixes no byte of it that was captured before: the output callback that comes
\* next, before the input callback has delivered anything new, reads nothing from the
\* ring of that channel.
C38_NoStaleAudioAfterReEnable ==
    [][(/\ lastOp.op = "setChannelEnabledInMix"
        /\ lastOp.args[3]
        /\ lastOp'.op = "outputIOProc"
        /\ lastOp'.args[1] = mixerHandles["voicechat"])
            => lastOp'.args[3][InputIndex(MixerAt(mixerHandles["voicechat"]),
                                          "PCPanel K2")] <= 0]_vars

\* the connections that hold an open HID handle
OpenConnections == {id \in DOMAIN connections : connections[id].device}

\* C39: whatever way the invocations of connectToDevice interleave at their awaits, at
\* most one PCPanelConnection holds an open HID handle, and the one that does is the
\* one the module-level connection variable refers to.
C39_OneOpenConnection ==
    /\ Cardinality(OpenConnections) <= 1
    /\ \A id \in OpenConnections : connection = id

\* C40: a PCPanelConnection holds ANALOG_COUNT analog values and BUTTON_COUNT button
\* states whatever packets have come in: a change whose index is not the index of a
\* control adds no entry and changes none.
C40_StateKeepsItsShape ==
    \A id \in DOMAIN connections :
        /\ Len(connections[id].analogValues) = ANALOG_COUNT
        /\ Len(connections[id].buttonStates) = BUTTON_COUNT

====
